---- MODULE Spec2Model ----
(***************************************************************************)
(* Solar-Lang: the two front ends of the repository and the code they      *)
(* generate.                                                               *)
(*   interpreter/interpreter.py  tokenize_line, parse_prog,                *)
(*       parse_solar_line, parse_expr, actual_interpreter_func,            *)
(*       expr_to_py, the generated __run with __truthy and __eval_expr,    *)
(*       run_compiled                                                      *)
(*   src/solar/engine.py  _tokenize_with_quotes, _parse_expr, _parse_line, *)
(*       parse_program, _emit_expr, _emit_stmt, compile_to_python, the     *)
(*       generated __ui helper, run_file                                   *)
(* Source text, tokens and generated Python fragments are strings; a       *)
(* string is a sequence of characters (Len, SubSeq, \o).                   *)
(***************************************************************************)
EXTENDS Integers, Sequences, FiniteSets, TLC

VARIABLES
    mode,          \* "interp" | "engine" | "eval": which program runs
    src,           \* src.splitlines(): the source lines
    phase,         \* where the run is: parse, lower, load, run, ..., ended
    i,             \* number of source lines consumed by the parser
    in_py_block,   \* parse_prog's passthrough-block flag
    program,       \* the statements parsed so far
    origin,        \* for each statement, the number of the line it came from
    err,           \* the exception that ended the run, or NoErr
    lowered,       \* number of statements lowered so far
    indent,        \* actual_interpreter_func's indent
    pg_loop_stack, \* actual_interpreter_func's pg_loop_stack
    prelude,       \* module_prelude: the imports hoisted to module level
    run_lines,     \* the generated body of __run, one record per line
    pc,            \* index in run_lines of the next line to execute
    stack,         \* the Python call stack below the current frame
    vars_,         \* the variable store
    funcs,         \* the function registry
    pyenv,         \* Python-level state of __run: local names, windows, widgets
    output,        \* what was printed, one entry per print call
    trace,         \* the indexes of the executed lines, in execution order
    ev,            \* the state of one __eval_expr call
    cli            \* the state of one call of the command line's main

vars == <<mode, src, phase, i, in_py_block, program, origin, err, lowered, indent,
          pg_loop_stack, prelude, run_lines, pc, stack, vars_, funcs, pyenv,
          output, trace, ev, cli>>

(***************************************************************************)
(* Bounds of the model.                                                    *)
(***************************************************************************)
MaxLines == 2

\* the engine's programs are made of at most MaxChunks fragments
MaxChunks == 3

\* the clicks on buttons while mainloop runs
MaxClicks == 1

(***************************************************************************)
(* Characters and the str methods the code uses.                           *)
(***************************************************************************)
Ch(s, j) == SubSeq(s, j, j)

Digits == {"0", "1", "2", "3", "4", "5", "6", "7", "8", "9"}

Letters ==
    {"a", "b", "c", "d", "e", "f", "g", "h", "i", "j", "k", "l", "m", "n", "o",
     "p", "q", "r", "s", "t", "u", "v", "w", "x", "y", "z",
     "A", "B", "C", "D", "E", "F", "G", "H", "I", "J", "K", "L", "M", "N", "O",
     "P", "Q", "R", "S", "T", "U", "V", "W", "X", "Y", "Z"}

IsSpace(c) == c \in {" ", "\t"}

Quotes == {"\"", "'"}

StartsWith(s, p) == Len(s) >= Len(p) /\ SubSeq(s, 1, Len(p)) = p

EndsWith(s, p) == Len(s) >= Len(p) /\ SubSeq(s, Len(s) - Len(p) + 1, Len(s)) = p

Contains(s, c) == \E j \in 1..Len(s) : Ch(s, j) = c

RECURSIVE LStrip(_)
LStrip(s) == IF Len(s) > 0 /\ IsSpace(Ch(s, 1)) THEN LStrip(SubSeq(s, 2, Len(s))) ELSE s

RECURSIVE RStrip(_)
RStrip(s) ==
    IF Len(s) > 0 /\ IsSpace(Ch(s, Len(s))) THEN RStrip(SubSeq(s, 1, Len(s) - 1)) ELSE s

Strip(s) == LStrip(RStrip(s))

\* " ".join(parts[from:])
RECURSIVE JoinFrom(_, _)
JoinFrom(parts, from) ==
    IF from > Len(parts) THEN ""
    ELSE IF from = Len(parts) THEN parts[from]
    ELSE parts[from] \o " " \o JoinFrom(parts, from + 1)

\* " ".join(parts[from:to]) with Python's half-open, 0-based slice turned
\* into the 1-based, closed range from..to
JoinRange(parts, from, to) == JoinFrom(SubSeq(parts, 1, to), from)

\* parts.index(x): the first position holding x (0 when absent)
IndexOf(parts, x) ==
    IF \E j \in 1..Len(parts) : parts[j] = x
    THEN CHOOSE j \in 1..Len(parts) : parts[j] = x /\ \A h \in 1..(j - 1) : parts[h] # x
    ELSE 0

\* str.isidentifier() over ASCII
IsIdentifier(s) ==
    /\ Len(s) > 0
    /\ Ch(s, 1) \in Letters \cup {"_"}
    /\ \A j \in 1..Len(s) : Ch(s, j) \in Letters \cup Digits \cup {"_"}

(***************************************************************************)
(* Runtime values.  One record shape for every value: t is the Python      *)
(* type, n and e hold a number (n for an int, n * 10^-e for a float, in    *)
(* lowest terms of e), s holds a string or an object's name.               *)
(***************************************************************************)
Val(t, n, e, s) == [t |-> t, n |-> n, e |-> e, s |-> s]

IntV(n) == Val("int", n, 0, "")

RECURSIVE NormFloat(_, _)
NormFloat(n, e) == IF e > 0 /\ n % 10 = 0 THEN NormFloat(n \div 10, e - 1) ELSE Val("float", n, e, "")

FloatV(n, e) == NormFloat(n, e)

StrV(s) == Val("str", 0, 0, s)

NoneV == Val("NoneType", 0, 0, "")

BoolV(b) == Val("bool", IF b THEN 1 ELSE 0, 0, "")

\* an opaque object of the host: a window, a widget, a tk variable, a module
ObjV(s) == Val("object", 0, 0, s)

\* a callable: a built-in of the registry, a safe function, a generated def
FuncV(s) == Val("function", 0, 0, s)

DictV == Val("dict", 0, 0, "")

\* a list of the host: the identity of the object and its elements as repr
\* prints them; every reference to the object carries the same identity
ListV(id, s) == Val("list", id, 0, s)

RECURSIVE Pow10(_)
Pow10(x) == IF x <= 0 THEN 1 ELSE 10 * Pow10(x - 1)

DigitSeq == "0123456789"

DigitVal(c) == (CHOOSE j \in 1..10 : Ch(DigitSeq, j) = c) - 1

\* a digit group of a Python number: digits, single underscores between them
IsDigitGroup(s) ==
    /\ Len(s) > 0
    /\ Ch(s, 1) \in Digits
    /\ Ch(s, Len(s)) \in Digits
    /\ \A j \in 1..Len(s) : Ch(s, j) \in Digits \cup {"_"}
    /\ \A j \in 1..(Len(s) - 1) : ~(Ch(s, j) = "_" /\ Ch(s, j + 1) = "_")

RECURSIVE GroupVal(_, _)
GroupVal(s, acc) ==
    IF Len(s) = 0 THEN acc
    ELSE IF Ch(s, 1) = "_" THEN GroupVal(SubSeq(s, 2, Len(s)), acc)
    ELSE GroupVal(SubSeq(s, 2, Len(s)), 10 * acc + DigitVal(Ch(s, 1)))

GroupDigits(s) == Cardinality({j \in 1..Len(s) : Ch(s, j) \in Digits})

HasSign(s) == Len(s) > 0 /\ Ch(s, 1) \in {"+", "-"}

Unsigned(s) == IF HasSign(s) THEN SubSeq(s, 2, Len(s)) ELSE s

SignOf(s) == IF Len(s) > 0 /\ Ch(s, 1) = "-" THEN -1 ELSE 1

\* int(s) succeeds
IsIntText(s) == IsDigitGroup(Unsigned(s))

IntOf(s) == SignOf(s) * GroupVal(Unsigned(s), 0)

\* position of the exponent marker of a float text (0: none)
ExpPos(s) == IF \E j \in 1..Len(s) : Ch(s, j) \in {"e", "E"}
             THEN CHOOSE j \in 1..Len(s) : Ch(s, j) \in {"e", "E"}
                                           /\ \A h \in 1..(j - 1) : Ch(s, h) \notin {"e", "E"}
             ELSE 0

Mantissa(s) == IF ExpPos(s) = 0 THEN Unsigned(s) ELSE Unsigned(SubSeq(s, 1, ExpPos(s) - 1))

Exponent(s) == IF ExpPos(s) = 0 THEN "0" ELSE SubSeq(s, ExpPos(s) + 1, Len(s))

DotPos(m) == IF Contains(m, ".") THEN CHOOSE j \in 1..Len(m) : Ch(m, j) = "." /\ \A h \in 1..(j - 1) : Ch(m, h) # "."
             ELSE 0

IntPart(m) == IF DotPos(m) = 0 THEN m ELSE SubSeq(m, 1, DotPos(m) - 1)

FracPart(m) == IF DotPos(m) = 0 THEN "" ELSE SubSeq(m, DotPos(m) + 1, Len(m))

\* float(s) succeeds (decimal forms; inf and nan have no "." and never get here)
IsFloatText(s) ==
    LET m == Mantissa(s)
        ip == IntPart(m)
        fp == FracPart(m)
    IN  /\ (ip # "" \/ fp # "")
        /\ (ip = "" \/ IsDigitGroup(ip))
        /\ (fp = "" \/ IsDigitGroup(fp))
        /\ IsIntText(Exponent(s))

FloatOf(s) ==
    LET m == Mantissa(s)
        fp == FracPart(m)
        n == GroupVal(IntPart(m) \o fp, 0)
        e == GroupDigits(fp)
        x == IntOf(Exponent(s))
    IN  IF x >= e THEN FloatV(SignOf(s) * n * Pow10(x - e), 0)
        ELSE FloatV(SignOf(s) * n, e - x)

(***************************************************************************)
(* Exceptions.  NoErr when none was raised; line is the number the message *)
(* carries ("Line <n>: ..."), 0 when the message carries none.             *)
(***************************************************************************)
Exc(type, msg, line) == [type |-> type, msg |-> msg, line |-> line]

NoErr == Exc("", "", 0)

(***************************************************************************)
(* interpreter.py, tokenize_line.  A token is (text, was_quoted).          *)
(* Positions are 1-based: Python's i < n is j <= Len(line).                *)
(***************************************************************************)
Tok(t, q) == [t |-> t, q |-> q]

\* the result of a scan: the position after it, the text read, and whether
\* the scan raised
Scan(ok, j, s) == [ok |-> ok, j |-> j, s |-> s]

\* read_string's loop, entered after the opening quote was skipped
RECURSIVE read_string_loop(_, _, _, _)
read_string_loop(line, j, q, out) ==
    IF j > Len(line) THEN Scan(FALSE, j, out)
    ELSE IF Ch(line, j) = "\\" /\ j + 1 <= Len(line)
         THEN read_string_loop(line, j + 2, q, out \o Ch(line, j + 1))
    ELSE IF Ch(line, j) = q THEN Scan(TRUE, j + 1, out)
    ELSE read_string_loop(line, j + 1, q, out \o Ch(line, j))

\* read_string without the escape branch: the scan ends at the first quote
RECURSIVE read_string_raw_loop(_, _, _, _)
read_string_raw_loop(line, j, q, out) ==
    IF j > Len(line) THEN Scan(FALSE, j, out)
    ELSE IF Ch(line, j) = q THEN Scan(TRUE, j + 1, out)
    ELSE read_string_raw_loop(line, j + 1, q, out \o Ch(line, j))

read_string_raw(line, j, q) == read_string_raw_loop(line, j + 1, q, "")

read_string(line, j, q) == read_string_loop(line, j + 1, q, "")

\* an embedded string put back without its quote characters
RequoteBare(ch, s) == s

\* what read_paren_group appends for an embedded string: the value between
\* the quote character that opened it
Requote(ch, s) == ch \o s \o ch

\* read_paren_group's loop; ok is FALSE when read_string raised or when the
\* line ended with depth # 0
RECURSIVE read_paren_loop(_, _, _, _)
read_paren_loop(line, j, depth, out) ==
    IF j > Len(line) THEN [ok |-> depth = 0, j |-> j, s |-> out, why |-> "unclosed parentheses group"]
    ELSE LET ch == Ch(line, j) IN
         IF ch \in Quotes
         THEN LET r == read_string(line, j, ch) IN
              IF r.ok THEN read_paren_loop(line, r.j, depth, out \o Requote(ch, r.s))
              ELSE [ok |-> FALSE, j |-> r.j, s |-> out, why |-> "unclosed string literal"]
         ELSE IF ch = "(" THEN read_paren_loop(line, j + 1, depth + 1, out \o ch)
         ELSE IF ch = ")"
              THEN IF depth - 1 = 0
                   THEN [ok |-> TRUE, j |-> j + 1, s |-> out \o ch, why |-> ""]
                   ELSE read_paren_loop(line, j + 1, depth - 1, out \o ch)
         ELSE read_paren_loop(line, j + 1, depth, out \o ch)

\* read_paren_group without the branch for quotes: a parenthesis inside an
\* embedded string counts
RECURSIVE read_paren_plain_loop(_, _, _, _)
read_paren_plain_loop(line, j, depth, out) ==
    IF j > Len(line) THEN [ok |-> depth = 0, j |-> j, s |-> out, why |-> "unclosed parentheses group"]
    ELSE IF Ch(line, j) = "(" THEN read_paren_plain_loop(line, j + 1, depth + 1, out \o "(")
    ELSE IF Ch(line, j) = ")" /\ depth - 1 = 0
    THEN [ok |-> TRUE, j |-> j + 1, s |-> out \o ")", why |-> ""]
    ELSE IF Ch(line, j) = ")" THEN read_paren_plain_loop(line, j + 1, depth - 1, out \o ")")
    ELSE read_paren_plain_loop(line, j + 1, depth, out \o Ch(line, j))

read_paren_plain(line, j) == read_paren_plain_loop(line, j, 0, "")

read_paren_group(line, j) == read_paren_loop(line, j, 0, "")

RECURSIVE SkipSpace(_, _)
SkipSpace(line, j) == IF j <= Len(line) /\ IsSpace(Ch(line, j)) THEN SkipSpace(line, j + 1) ELSE j

\* the end of a bare token: it stops at whitespace and at "("
RECURSIVE BareEnd(_, _)
BareEnd(line, j) ==
    IF j <= Len(line) /\ ~IsSpace(Ch(line, j)) /\ Ch(line, j) # "(" THEN BareEnd(line, j + 1) ELSE j

\* the result of tokenizing: the tokens, or the SyntaxError raised
Toks(ok, toks, why) == [ok |-> ok, toks |-> toks, why |-> why]

RECURSIVE tokenize_loop(_, _, _)
tokenize_loop(line, j0, tokens) ==
    LET j == SkipSpace(line, j0) IN
    IF j > Len(line) THEN Toks(TRUE, tokens, "")
    ELSE LET ch == Ch(line, j) IN
         IF ch \in Quotes
         THEN LET r == read_string(line, j, ch) IN
              IF r.ok THEN tokenize_loop(line, r.j, Append(tokens, Tok(r.s, TRUE)))
              ELSE Toks(FALSE, <<>>, "unclosed string literal")
         ELSE IF ch = "("
         THEN LET g == read_paren_group(line, j) IN
              IF g.ok THEN tokenize_loop(line, g.j, Append(tokens, Tok(g.s, FALSE)))
              ELSE Toks(FALSE, <<>>, g.why)
         ELSE LET e == BareEnd(line, j) IN
              tokenize_loop(line, e, Append(tokens, Tok(SubSeq(line, j, e - 1), FALSE)))

tokenize_line(line) == tokenize_loop(line, 1, <<>>)

(***************************************************************************)
(* engine.py, _tokenize_with_quotes: quoted strings and whitespace-        *)
(* delimited words; parentheses are ordinary characters.                   *)
(***************************************************************************)
\* a word that runs to the end of the line
WordEndOfLine(line, j) == Len(line) + 1

RECURSIVE WordEnd(_, _)
WordEnd(line, j) == IF j <= Len(line) /\ ~IsSpace(Ch(line, j)) THEN WordEnd(line, j + 1) ELSE j

RECURSIVE tokenize_with_quotes_loop(_, _, _)
tokenize_with_quotes_loop(line, j0, out) ==
    LET j == SkipSpace(line, j0) IN
    IF j > Len(line) THEN Toks(TRUE, out, "")
    ELSE IF Ch(line, j) \in Quotes
         THEN LET r == read_string(line, j, Ch(line, j)) IN
              IF r.ok THEN tokenize_with_quotes_loop(line, r.j, Append(out, Tok(r.s, TRUE)))
              ELSE Toks(FALSE, <<>>, "unclosed string literal")
    ELSE LET e == WordEnd(line, j) IN
         tokenize_with_quotes_loop(line, e, Append(out, Tok(SubSeq(line, j, e - 1), FALSE)))

tokenize_with_quotes(line) == tokenize_with_quotes_loop(line, 1, <<>>)

Texts(parts_q) == [j \in 1..Len(parts_q) |-> parts_q[j].t]

Flags(parts_q) == [j \in 1..Len(parts_q) |-> parts_q[j].q]

(***************************************************************************)
(* Expressions and statements.  One record shape for each:                 *)
(*   expression: k is the class (Num, String, Var, RawExpr), s the text    *)
(*     (String.value, Var.name, RawExpr.src), v the value of a Num;        *)
(*   statement: k is the class, names its str fields in declaration        *)
(*     order, exprs its Expr fields in declaration order (for a Call, its  *)
(*     args), sub its nested statements (IfThen.then_stmt, the on_call of  *)
(*     UiButton and UiBind, SolarDef.body), flags the quoted flags of a    *)
(*     UiStmt.                                                             *)
(***************************************************************************)
Ex(k, s, v) == [k |-> k, s |-> s, v |-> v]

St(k, names, exprs, sub) == [k |-> k, names |-> names, exprs |-> exprs, sub |-> sub, flags |-> <<>>]

PyRaw(raw) == St("PyRaw", <<raw>>, <<>>, <<>>)

\* the result of parsing a line: the statement, or the exception raised
Parsed(st) == [ok |-> TRUE, st |-> st, err |-> NoErr]

Raised(e) == [ok |-> FALSE, st |-> PyRaw(""), err |-> e]

SyntaxErr(msg, line) == Raised(Exc("SyntaxError", msg, line))

IndexErr == Raised(Exc("IndexError", "list index out of range", 0))

\* parse_expr without its first branch: the quoted flag is not looked at
parse_expr_unquoted(token, was_quoted) ==
    LET s == Strip(token) IN
    IF Contains(s, ".") /\ IsFloatText(s) THEN Ex("Num", "", FloatOf(s))
    ELSE IF ~Contains(s, ".") /\ IsIntText(s) THEN Ex("Num", "", IntV(IntOf(s)))
    ELSE IF IsIdentifier(s) THEN Ex("Var", s, NoneV)
    ELSE Ex("RawExpr", s, NoneV)

\* interpreter.py, parse_expr
parse_expr(token, was_quoted) ==
    IF was_quoted THEN Ex("String", token, NoneV)
    ELSE LET s == Strip(token) IN
         IF Contains(s, ".") /\ IsFloatText(s) THEN Ex("Num", "", FloatOf(s))
         ELSE IF ~Contains(s, ".") /\ IsIntText(s) THEN Ex("Num", "", IntV(IntOf(s)))
         ELSE IF IsIdentifier(s) THEN Ex("Var", s, NoneV)
         ELSE Ex("RawExpr", s, NoneV)

\* engine.py, _parse_expr
engine_parse_expr(tok, was_quoted) ==
    IF was_quoted THEN Ex("String", tok, NoneV)
    ELSE IF Contains(tok, ".") /\ IsFloatText(tok) THEN Ex("Num", "", FloatOf(tok))
    ELSE IF ~Contains(tok, ".") /\ IsIntText(tok) THEN Ex("Num", "", IntV(IntOf(tok)))
    ELSE Ex("Var", tok, NoneV)

(***************************************************************************)
(* interpreter.py, parse_solar_line.  parts and quoted are indexed as in   *)
(* the code, from 0: At(parts, n) is parts[n].                             *)
(***************************************************************************)
At(parts, n) == parts[n + 1]

\* the last position holding x, counted from 0
FindLast(parts, x) ==
    IF \E j \in 1..Len(parts) : parts[j] = x
    THEN (CHOOSE j \in 1..Len(parts) : parts[j] = x /\ \A h \in (j + 1)..Len(parts) : parts[h] # x) - 1
    ELSE -1

\* parts.index(x), counted from 0
Find(parts, x) == IndexOf(parts, x) - 1

\* the tokens from parts[from] on folded into one expression, the way the
\* span of a binding is
ArgsFolded(parts, quoted, from) ==
    IF Len(parts) > from THEN <<parse_expr(JoinFrom(parts, from + 1), FALSE)>> ELSE <<>>

\* [parse_expr(parts[j], lineno, quoted[j]) for j in range(from, len(parts))]
ArgsFrom(parts, quoted, from) ==
    [j \in 1..(IF Len(parts) > from THEN Len(parts) - from ELSE 0) |->
        parse_expr(At(parts, from + j - 1), At(quoted, from + j - 1))]

PE(parts, quoted, n) == parse_expr(At(parts, n), At(quoted, n))

In(parts, x) == \E j \in 1..Len(parts) : parts[j] = x

\* the indexes a ui sub-command reads without a length check of its own
UiReads(cmd, parts) ==
    LET at_i == Find(parts, "at")
        do_i == Find(parts, "do")
        from_i == Find(parts, "from")
        to_i == Find(parts, "to")
    IN  CASE cmd \in {"window", "run"} -> {2}
          [] cmd \in {"title", "bg", "fg", "text", "set"} -> {2, 3}
          [] cmd = "size" -> {2, 3, 4}
          [] cmd \in {"label", "checkbox"} -> {2, 3, 4, at_i + 1, at_i + 2}
          [] cmd = "button" -> {2, 3, 4, at_i + 1, at_i + 2, do_i + 1}
          [] cmd = "entry" -> {2, 3, at_i + 1, at_i + 2}
          [] cmd = "slider" -> {2, 3, from_i + 1, to_i + 1, at_i + 1, at_i + 2}
          [] cmd = "bind" -> {2, 3, do_i + 1}
          [] OTHER -> {}

\* the marker keywords a ui sub-command looks for with `in`
UiMarkers(cmd) ==
    CASE cmd \in {"label", "entry", "checkbox"} -> {"at"}
      [] cmd = "button" -> {"at", "do"}
      [] cmd = "slider" -> {"from", "to", "at"}
      [] cmd = "bind" -> {"do"}
      [] OTHER -> {}

UiCommands ==
    {"window", "title", "size", "bg", "fg", "label", "button", "entry", "slider",
     "checkbox", "bind", "text", "set", "get", "run"}

parse_ui(parts, quoted, lineno) ==
    LET cmd == At(parts, 1)
        at_i == Find(parts, "at")
        do_i == Find(parts, "do")
        from_i == Find(parts, "from")
        to_i == Find(parts, "to")
        e(n) == PE(parts, quoted, n)
        p(n) == At(parts, n)
    IN  IF cmd \notin UiCommands THEN SyntaxErr("unknown ui command", lineno)
        ELSE IF \E m \in UiMarkers(cmd) : ~In(parts, m) THEN SyntaxErr("needs marker", lineno)
        ELSE IF cmd = "get"
             THEN IF Len(parts) < 5 \/ p(3) # "into"
                  THEN SyntaxErr("expected ui get var into name", lineno)
                  ELSE Parsed(St("UiGetInto", <<p(2), p(4)>>, <<>>, <<>>))
        ELSE IF \E n \in UiReads(cmd, parts) : n >= Len(parts) THEN IndexErr
        ELSE CASE cmd = "window" -> Parsed(St("UiWindow", <<p(2)>>, <<>>, <<>>))
               [] cmd = "title" -> Parsed(St("UiTitle", <<p(2)>>, <<e(3)>>, <<>>))
               [] cmd = "size" -> Parsed(St("UiSize", <<p(2)>>, <<e(3), e(4)>>, <<>>))
               [] cmd = "bg" -> Parsed(St("UiBg", <<p(2)>>, <<e(3)>>, <<>>))
               [] cmd = "fg" -> Parsed(St("UiFg", <<p(2)>>, <<e(3)>>, <<>>))
               [] cmd = "label" ->
                    Parsed(St("UiLabel", <<p(2), p(3)>>, <<e(4), e(at_i + 1), e(at_i + 2)>>, <<>>))
               [] cmd = "button" ->
                    Parsed(St("UiButton", <<p(2), p(3)>>, <<e(4), e(at_i + 1), e(at_i + 2)>>,
                              <<St("Call", <<p(do_i + 1)>>, ArgsFrom(parts, quoted, do_i + 2), <<>>)>>))
               [] cmd = "entry" ->
                    Parsed(St("UiEntry", <<p(2), p(3)>>, <<e(at_i + 1), e(at_i + 2)>>, <<>>))
               [] cmd = "slider" ->
                    Parsed(St("UiSlider", <<p(2), p(3)>>,
                              <<e(from_i + 1), e(to_i + 1), e(at_i + 1), e(at_i + 2)>>, <<>>))
               [] cmd = "checkbox" ->
                    Parsed(St("UiCheckbox", <<p(2), p(3)>>, <<e(4), e(at_i + 1), e(at_i + 2)>>, <<>>))
               [] cmd = "bind" ->
                    Parsed(St("UiBind", <<p(2), p(3)>>, <<>>,
                              <<St("Call", <<p(do_i + 1)>>, ArgsFrom(parts, quoted, do_i + 2), <<>>)>>))
               [] cmd = "text" -> Parsed(St("UiText", <<p(2)>>, <<e(3)>>, <<>>))
               [] cmd = "set" -> Parsed(St("UiSet", <<p(2)>>, <<e(3)>>, <<>>))
               [] cmd = "run" -> Parsed(St("UiRun", <<p(2)>>, <<>>, <<>>))

\* the least len(parts) a pg sub-command accepts
PgMinLen(cmd) ==
    CASE cmd \in {"init", "end"} -> 2
      [] cmd \in {"loop", "poll", "quitif", "stop", "flip"} -> 3
      [] cmd \in {"fps", "tick"} -> 4
      [] cmd \in {"window", "clear", "key"} -> 6
      [] cmd = "circle" -> 9
      [] cmd \in {"rect", "text"} -> 10

PgCommands ==
    {"init", "window", "fps", "loop", "end", "poll", "quitif", "stop", "clear", "rect",
     "circle", "text", "flip", "tick", "key"}

PgClass(cmd) ==
    CASE cmd = "init" -> "PgInit" [] cmd = "window" -> "PgWindow" [] cmd = "fps" -> "PgFps"
      [] cmd = "loop" -> "PgLoop" [] cmd = "end" -> "PgEnd" [] cmd = "poll" -> "PgPoll"
      [] cmd = "quitif" -> "PgQuitIf" [] cmd = "stop" -> "PgStop" [] cmd = "clear" -> "PgClear"
      [] cmd = "rect" -> "PgRect" [] cmd = "circle" -> "PgCircle" [] cmd = "text" -> "PgText"
      [] cmd = "flip" -> "PgFlip" [] cmd = "tick" -> "PgTick" [] cmd = "key" -> "PgKeyInto"

\* how many Expr fields, read from parts[3] on, a pg statement has
PgExprs(cmd) ==
    CASE cmd \in {"fps", "tick"} -> 1
      [] cmd \in {"window", "clear"} -> 3
      [] cmd = "circle" -> 6
      [] cmd \in {"rect", "text"} -> 7
      [] OTHER -> 0

parse_pg(parts, quoted, lineno) ==
    LET cmd == At(parts, 1) IN
    IF cmd \notin PgCommands THEN SyntaxErr("unknown pg command", lineno)
    ELSE IF Len(parts) < PgMinLen(cmd) \/ (cmd = "key" /\ At(parts, 4) # "into")
         THEN SyntaxErr("pg " \o cmd, lineno)
    ELSE IF cmd = "key"
         THEN Parsed(St("PgKeyInto", <<At(parts, 2), At(parts, 3), At(parts, 5)>>, <<>>, <<>>))
    ELSE Parsed(St(PgClass(cmd),
                   IF cmd \in {"init", "end"} THEN <<>> ELSE <<At(parts, 2)>>,
                   [j \in 1..PgExprs(cmd) |-> PE(parts, quoted, 2 + j)],
                   <<>>))

RECURSIVE parse_solar_line(_, _)

\* the IfThen built from the condition and the parsed rest of the line,
\* or the failure of parsing the rest
if_then(cond, body) ==
    IF body.ok THEN Parsed(St("IfThen", <<>>, <<cond>>, <<body.st>>)) ELSE body

\* parse_solar_line from `head = parts[0]` on
parse_parts(parts, quoted, lineno) ==
    IF parts[1] = "if" /\ In(parts, "then")
    THEN IF Find(parts, "then") < 2 \/ Find(parts, "then") = Len(parts) - 1
         THEN SyntaxErr("bad if-then", lineno)
         ELSE if_then(parse_expr(JoinRange(parts, 2, Find(parts, "then")), FALSE),
                      parse_solar_line(JoinFrom(parts, Find(parts, "then") + 2), lineno))
    ELSE IF parts[1] = "let"
    THEN IF Len(parts) < 4 \/ At(parts, 2) # "="
         THEN SyntaxErr("expected let name = expr", lineno)
         ELSE Parsed(St("Let", <<At(parts, 1)>>,
                        <<parse_expr(JoinFrom(parts, 4), Len(parts) = 4 /\ At(quoted, 3))>>, <<>>))
    ELSE IF parts[1] = "print"
    THEN IF Len(parts) < 2 THEN SyntaxErr("expected print expr", lineno)
         ELSE IF Len(parts) = 2 THEN Parsed(St("Print", <<>>, <<PE(parts, quoted, 1)>>, <<>>))
         ELSE Parsed(St("Call", <<"print_many">>, ArgsFrom(parts, quoted, 1), <<>>))
    ELSE IF parts[1] = "call"
    THEN IF Len(parts) < 2 THEN SyntaxErr("expected call func args", lineno)
         ELSE Parsed(St("Call", <<At(parts, 1)>>, ArgsFrom(parts, quoted, 2), <<>>))
    ELSE IF parts[1] = "ui"
    THEN IF Len(parts) < 3 THEN SyntaxErr("bad ui statement", lineno)
         ELSE parse_ui(parts, quoted, lineno)
    ELSE IF parts[1] = "pg"
    THEN IF Len(parts) < 2 THEN SyntaxErr("bad pg statement", lineno)
         ELSE parse_pg(parts, quoted, lineno)
    ELSE Parsed(St("Call", <<parts[1]>>, ArgsFrom(parts, quoted, 1), <<>>))

\* parse_solar_line after tokenize_line: the tokenizer's error, the
\* error for no token, or the statement
parse_tokens(parts_q, lineno) ==
    IF ~parts_q.ok THEN SyntaxErr(parts_q.why, 0)
    ELSE IF parts_q.toks = <<>> THEN SyntaxErr("empty", 0)
    ELSE parse_parts(Texts(parts_q.toks), Flags(parts_q.toks), lineno)

parse_solar_line(raw_line, lineno) == parse_tokens(tokenize_line(Strip(raw_line)), lineno)

(***************************************************************************)
(* interpreter.py, the passthrough detection and parse_prog.               *)
(***************************************************************************)
starts_python_block(raw_line) ==
    LET s == LStrip(raw_line) IN
    IF s = "" THEN FALSE
    ELSE IF StartsWith(s, "def ") \/ StartsWith(s, "class ") \/ StartsWith(s, "@") THEN TRUE
    ELSE EndsWith(RStrip(s), ":")

SolarHeads == {"contain ", "let ", "print ", "call ", "ui ", "pg ", "if "}

looks_like_python_single_line(raw_line) ==
    LET s == LStrip(raw_line) IN
    IF s = "" THEN FALSE
    ELSE IF \E h \in SolarHeads : StartsWith(s, h) THEN FALSE
    ELSE IF StartsWith(s, "import ") \/ StartsWith(s, "from ") THEN TRUE
    ELSE IF Contains(s, "=") /\ ~StartsWith(Strip(s), "let ") THEN TRUE
    ELSE StartsWith(s, "funcs[") \/ StartsWith(s, "vars_[")

\* s.split(c, 1)[0]
BeforeChar(s, c) ==
    IF Contains(s, c)
    THEN SubSeq(s, 1, (CHOOSE j \in 1..Len(s) : Ch(s, j) = c /\ \A h \in 1..(j - 1) : Ch(s, h) # c) - 1)
    ELSE s

\* s.rstrip(" ;,")
RECURSIVE RStripPunct(_)
RStripPunct(s) ==
    IF Len(s) > 0 /\ Ch(s, Len(s)) \in {" ", ";", ","} THEN RStripPunct(SubSeq(s, 1, Len(s) - 1)) ELSE s

\* all(part.isidentifier() for part in mod.split("."))
RECURSIVE IsDottedName(_)
IsDottedName(mod) ==
    IF Contains(mod, ".")
    THEN /\ IsIdentifier(BeforeChar(mod, "."))
         /\ IsDottedName(SubSeq(mod, Len(BeforeChar(mod, ".")) + 2, Len(mod)))
    ELSE IsIdentifier(mod)

\* the module name of a `contain <module>` line (the line is stripped and
\* starts with "contain ")
ContainModule(stripped) ==
    LET rest == Strip(SubSeq(stripped, Len("contain ") + 1, Len(stripped)))
        cut == IF Contains(rest, "#") THEN Strip(BeforeChar(rest, "#")) ELSE rest
    IN  RStripPunct(cut)

\* One pass of parse_prog's loop over the line numbered lineno, entered
\* with the flag in_block: the statements appended, the flag afterwards and
\* the exception that escaped the loop, if any.
Pass(stmts, flag, e) == [stmts |-> stmts, flag |-> flag, err |-> e]

\* the branch of a contain line
contain_pass(mod, lineno) ==
    IF mod = "" \/ ~IsDottedName(mod)
    THEN Pass(<<>>, FALSE, Exc("SyntaxError", "contain expects a valid module name", lineno))
    ELSE Pass(<<St("ContainImport", <<mod>>, <<>>, <<>>)>>, FALSE, NoErr)

\* try: parse_solar_line ... except SyntaxError: PyRaw(line); any other
\* exception leaves parse_prog
try_parse(r, line) ==
    IF r.ok THEN Pass(<<r.st>>, FALSE, NoErr)
    ELSE IF r.err.type = "SyntaxError" THEN Pass(<<PyRaw(line)>>, FALSE, NoErr)
    ELSE Pass(<<>>, FALSE, r.err)

\* the pass with a flag that only a block opener touches: once set, every
\* line is kept as passthrough
parse_prog_pass_sticky(line, lineno, in_block) ==
    IF in_block THEN Pass(<<PyRaw(line)>>, TRUE, NoErr)
    ELSE IF Strip(line) = "" \/ StartsWith(LStrip(line), "#") THEN Pass(<<>>, FALSE, NoErr)
    ELSE IF StartsWith(Strip(line), "contain ") THEN contain_pass(ContainModule(Strip(line)), lineno)
    ELSE IF starts_python_block(line) THEN Pass(<<PyRaw(line)>>, TRUE, NoErr)
    ELSE IF looks_like_python_single_line(line) THEN Pass(<<PyRaw(line)>>, FALSE, NoErr)
    ELSE try_parse(parse_solar_line(line, lineno), line)

\* one pass of the loop of parse_prog: the statements it appends, the new
\* in_py_block, and the exception that leaves parse_prog, if any
parse_prog_pass(line, lineno, in_block) ==
    IF Strip(line) = "" \/ StartsWith(LStrip(line), "#")
    THEN Pass(IF in_block THEN <<PyRaw(line)>> ELSE <<>>, in_block, NoErr)
    ELSE IF in_block /\ (StartsWith(line, " ") \/ StartsWith(line, "\t"))
    THEN Pass(<<PyRaw(line)>>, TRUE, NoErr)
    ELSE IF StartsWith(Strip(line), "contain ") THEN contain_pass(ContainModule(Strip(line)), lineno)
    ELSE IF starts_python_block(line) THEN Pass(<<PyRaw(line)>>, TRUE, NoErr)
    ELSE IF looks_like_python_single_line(line) THEN Pass(<<PyRaw(line)>>, FALSE, NoErr)
    ELSE try_parse(parse_solar_line(line, lineno), line)

(***************************************************************************)
(* The Python text the lowering writes with repr() and the host reads      *)
(* back when it executes the generated line.                               *)
(***************************************************************************)
RECURSIVE DigitsOf(_)
DigitsOf(n) == IF n < 10 THEN Ch(DigitSeq, n + 1) ELSE DigitsOf(n \div 10) \o Ch(DigitSeq, (n % 10) + 1)

Abs(n) == IF n < 0 THEN -n ELSE n

\* repr(int)
PyReprInt(n) == (IF n < 0 THEN "-" ELSE "") \o DigitsOf(Abs(n))

RECURSIVE Zeros(_)
Zeros(c) == IF c <= 0 THEN "" ELSE "0" \o Zeros(c - 1)

\* the digits without their trailing zeros
RECURSIVE TrimZeros(_)
TrimZeros(t) == IF Len(t) > 1 /\ Ch(t, Len(t)) = "0" THEN TrimZeros(SubSeq(t, 1, Len(t) - 1)) ELSE t

\* repr(float) of n * 10^-e: positional between 1e-4 and 1e16, else
\* scientific with an exponent of at least two digits
PyReprFloat(n, e) ==
    LET d == DigitsOf(Abs(n))
        sign == IF n < 0 THEN "-" ELSE ""
        x == Len(d) - 1 - e
        xs == IF Abs(x) < 10 THEN "0" \o DigitsOf(Abs(x)) ELSE DigitsOf(Abs(x))
        m == TrimZeros(d)
    IN  IF n = 0 THEN "0.0"
        ELSE IF x < -4 \/ x >= 16
        THEN sign \o Ch(m, 1) \o (IF Len(m) > 1 THEN "." \o SubSeq(m, 2, Len(m)) ELSE "")
                  \o "e" \o (IF x < 0 THEN "-" ELSE "+") \o xs
        ELSE IF e = 0 THEN sign \o d \o ".0"
        ELSE IF Len(d) > e THEN sign \o SubSeq(d, 1, Len(d) - e) \o "." \o SubSeq(d, Len(d) - e + 1, Len(d))
        ELSE sign \o "0." \o Zeros(e - Len(d)) \o d

\* repr(str)
RECURSIVE PyReprBody(_, _)
PyReprBody(s, q) ==
    IF Len(s) = 0 THEN ""
    ELSE LET c == Ch(s, 1)
             r == PyReprBody(SubSeq(s, 2, Len(s)), q)
         IN  IF c = "\\" THEN "\\\\" \o r
             ELSE IF c = q THEN "\\" \o q \o r
             ELSE IF c = "\t" THEN "\\t" \o r
             ELSE c \o r

PyReprStr(s) ==
    LET q == IF Contains(s, "'") /\ ~Contains(s, "\"") THEN "\"" ELSE "'"
    IN  q \o PyReprBody(s, q) \o q

PyRepr(v) ==
    CASE v.t = "int" -> PyReprInt(v.n)
      [] v.t = "float" -> PyReprFloat(v.n, v.e)
      [] v.t = "str" -> PyReprStr(v.s)
      [] v.t = "NoneType" -> "None"
      [] v.t = "bool" -> IF v.n = 1 THEN "True" ELSE "False"
      [] v.t = "list" -> v.s
      [] OTHER -> "<" \o v.t \o " " \o v.s \o ">"

\* The value of a Python string literal: ok is FALSE when the text is not
\* one literal (no closing quote, or text after it).
RECURSIVE PyStrLitLoop(_, _, _, _)
PyStrLitLoop(text, j, q, out) ==
    IF j > Len(text) THEN [ok |-> FALSE, s |-> out]
    ELSE LET c == Ch(text, j) IN
         IF c = "\\" /\ j + 1 <= Len(text)
         THEN LET d == Ch(text, j + 1) IN
              PyStrLitLoop(text, j + 2, q,
                           out \o (IF d = "t" THEN "\t" ELSE IF d \in {"\\", "'", "\""} THEN d ELSE "\\" \o d))
         ELSE IF c = q THEN [ok |-> j = Len(text), s |-> out]
         ELSE PyStrLitLoop(text, j + 1, q, out \o c)

PyStrLit(text) ==
    IF Len(text) >= 2 /\ Ch(text, 1) \in Quotes THEN PyStrLitLoop(text, 2, Ch(text, 1), "")
    ELSE [ok |-> FALSE, s |-> ""]

\* The value of a Python literal written by repr().
PyLiteral(text) ==
    IF Len(text) > 0 /\ Ch(text, 1) \in Quotes THEN StrV(PyStrLit(text).s)
    ELSE IF text = "None" THEN NoneV
    ELSE IF text = "True" THEN BoolV(TRUE)
    ELSE IF text = "False" THEN BoolV(FALSE)
    ELSE IF Contains(text, ".") \/ ExpPos(text) # 0 THEN FloatOf(text)
    ELSE IntV(IntOf(text))

(***************************************************************************)
(* interpreter.py, expr_to_py.                                             *)
(***************************************************************************)
expr_to_py(expr) ==
    CASE expr.k = "Num" -> PyRepr(expr.v)
      [] expr.k = "String" -> PyReprStr(expr.s)
      [] expr.k = "Var" -> "vars_.get(" \o PyReprStr(expr.s) \o ")"
      [] expr.k = "RawExpr" -> "__eval_expr(" \o PyReprStr(expr.s) \o ")"

ExprsToPy(exprs) == [j \in 1..Len(exprs) |-> expr_to_py(exprs[j])]

(***************************************************************************)
(* interpreter.py, actual_interpreter_func.  A generated line is a record: *)
(* ind is the indent it was emitted at (units of four spaces), op names    *)
(* the line's template, names holds the names the template embeds and      *)
(* args the expression texts it embeds.  The lines emitted for one ui or   *)
(* pg statement form a group: the first carries the statement's class as   *)
(* op, the others have cont = TRUE.                                        *)
(***************************************************************************)
Ln(ind, op, cont, names, args) == [ind |-> ind, op |-> op, cont |-> cont, names |-> names, args |-> args]

\* the three lines of a function call; cont is TRUE for the body of a
\* callback, which belongs to the group of its ui statement
CallLines(ind, st, cont) ==
    << Ln(ind, "fn_get", cont, <<PyReprStr(st.names[1])>>, <<>>),
       Ln(ind, "fn_chk", cont, <<st.names[1]>>, <<>>),
       Ln(ind, "fn_call", cont, <<>>, ExprsToPy(st.exprs)) >>

\* compile_one: the statement after `then`
compile_one(stmt, ind) ==
    CASE stmt.k = "Let" -> <<Ln(ind, "assign", FALSE, <<PyReprStr(stmt.names[1])>>, ExprsToPy(stmt.exprs))>>
      [] stmt.k = "Print" -> <<Ln(ind, "print", FALSE, <<>>, ExprsToPy(stmt.exprs))>>
      [] stmt.k = "Call" -> CallLines(ind, stmt, FALSE)
      [] stmt.k = "PgStop" -> <<Ln(ind, "PgStop", FALSE, <<PyReprStr(stmt.names[1])>>, <<>>)>>
      [] OTHER -> <<Ln(ind, "pass", FALSE, <<>>, <<>>)>>

\* For each ui and pg class, the indent of every line its handler emits,
\* relative to the indent on entry, in emission order.
Shape(cls) ==
    CASE cls = "UiWindow" -> <<0, 0, 0>>
      [] cls \in {"UiTitle", "UiSize", "UiRun", "PgFps", "PgStop", "PgLoop"} -> <<0>>
      [] cls = "UiBg" -> <<0, 0, 0, 1, 2, 3, 1, 2>>
      [] cls = "UiFg" -> <<0, 0, 1, 2, 3, 1, 2>>
      [] cls = "UiLabel" -> <<0, 0, 0>>
      [] cls = "UiButton" -> <<0, 1, 1, 1, 0, 0, 0, 0>>
      [] cls \in {"UiEntry", "UiSlider", "UiCheckbox"} -> <<0, 0, 0, 0, 0>>
      [] cls = "UiBind" -> <<0, 1, 1, 1, 0>>
      [] cls \in {"UiText", "UiSet", "UiGetInto"} -> <<0, 0, 0, 1, 0, 1>>
      [] cls \in {"PgInit", "PgClear", "PgRect", "PgCircle", "PgFlip", "PgTick"} -> <<0, 0>>
      [] cls = "PgWindow" -> <<0, 0, 0, 0, 0, 0, 0>>
      [] cls = "PgPoll" -> <<0, 0, 0>>
      [] cls = "PgQuitIf" -> <<0, 0, 1, 2>>
      [] cls = "PgText" -> <<0, 0, 0, 0, 0, 1, 1, 1, 0, 0>>
      [] cls = "PgKeyInto" -> <<0, 0, 0, 0, 1, 0, 1>>
      [] cls = "PgEnd" -> <<>>

\* the names and expression texts a ui or pg group embeds: the
\* statement's own, then those of its callback call
GroupNames(st) ==
    st.names \o (IF st.sub = <<>> THEN <<>> ELSE st.sub[1].names)

GroupArgs(st) ==
    ExprsToPy(st.exprs) \o (IF st.sub = <<>> THEN <<>> ELSE ExprsToPy(st.sub[1].exprs))

GroupLines(st, ind) ==
    [j \in 1..Len(Shape(st.k)) |->
        IF j = 1 THEN Ln(ind, st.k, FALSE, GroupNames(st), GroupArgs(st))
        ELSE IF st.k \in {"UiButton", "UiBind"} /\ j \in 2..4
             THEN CallLines(ind + 1, st.sub[1], TRUE)[j - 1]
        ELSE Ln(ind + Shape(st.k)[j], "more", TRUE, <<>>, <<>>)]

\* What one pass of the loop `for st in program` appends to run_lines.
lower_stmt(st, ind) ==
    CASE st.k = "ContainImport" -> <<>>
      [] st.k = "PyRaw" -> <<Ln(ind, "raw", FALSE, st.names, <<>>)>>
      [] st.k = "IfThen" ->
            <<Ln(ind, "if", FALSE, <<>>, ExprsToPy(st.exprs))>> \o compile_one(st.sub[1], ind + 1)
      [] st.k = "Let" -> <<Ln(ind, "assign", FALSE, <<PyReprStr(st.names[1])>>, ExprsToPy(st.exprs))>>
      [] st.k = "Print" -> <<Ln(ind, "print", FALSE, <<>>, ExprsToPy(st.exprs))>>
      [] st.k = "Call" -> CallLines(ind, st, FALSE)
      [] OTHER -> GroupLines(st, ind)

\* the value of indent when every pg end lowers it
indent_after_any_end(st, ind, loops) ==
    CASE st.k = "PgLoop" -> ind + 1
      [] st.k = "PgEnd" -> ind - 1
      [] OTHER -> ind

\* the value of indent after the pass
indent_after(st, ind, loops) ==
    CASE st.k = "PgLoop" -> ind + 1
      [] st.k = "PgEnd" -> IF loops # <<>> THEN (IF ind - 1 > 1 THEN ind - 1 ELSE 1) ELSE ind
      [] OTHER -> ind

\* pg_loop_stack after the pass
loops_after(st, loops) ==
    CASE st.k = "PgLoop" -> Append(loops, st.names[1])
      [] st.k = "PgEnd" -> IF loops # <<>> THEN SubSeq(loops, 1, Len(loops) - 1) ELSE loops
      [] OTHER -> loops

\* module_prelude after the pass: an import is added once per module
prelude_after(st, pre) ==
    IF st.k = "ContainImport" /\ ~In(pre, st.names[1]) THEN Append(pre, st.names[1]) ELSE pre

(***************************************************************************)
(* The generated __eval_expr.  The parsed expression is a tree of ast      *)
(* nodes: kind is the node's class, id the identifier it carries           *)
(* (Name.id, Attribute.attr), v the value of a Constant, kids its child    *)
(* nodes in the order of ast.iter_child_nodes (operators and the Load      *)
(* context are nodes too).                                                 *)
(***************************************************************************)
Node(kind, id, v, kids) == [kind |-> kind, id |-> id, v |-> v, kids |-> kids]

Load == Node("Load", "", NoneV, <<>>)

Op(kind) == Node(kind, "", NoneV, <<>>)

Name(id) == Node("Name", id, NoneV, <<Load>>)

Const(v) == Node("Constant", "", v, <<>>)

Attr(value, attr) == Node("Attribute", attr, NoneV, <<value, Load>>)

CallN(func, args) == Node("Call", "", NoneV, <<func>> \o args)

BinOp(left, op, right) == Node("BinOp", "", NoneV, <<left, Op(op), right>>)

Compare(left, op, right) == Node("Compare", "", NoneV, <<left, Op(op), right>>)

Expression(body) == Node("Expression", "", NoneV, <<body>>)

\* the tuple `allowed`
allowed ==
    {"Expression", "BinOp", "UnaryOp", "BoolOp", "Compare", "Name", "Load", "Constant",
     "Call", "Attribute", "Subscript", "Slice", "Index", "Add", "Sub", "Mult", "Div",
     "FloorDiv", "Mod", "Pow", "UAdd", "USub", "And", "Or", "Eq", "NotEq", "Lt", "LtE",
     "Gt", "GtE", "Not", "Invert", "BitAnd", "BitOr", "BitXor", "LShift", "RShift",
     "IfExp", "List", "Tuple", "Dict"}

dangerous_names == {"__import__", "eval", "exec", "open", "compile", "globals", "locals"}

\* the three checks of the loop over ast.walk(tree), for one node: the
\* message of the ValueError raised, "" when the node passes
node_check(node) ==
    IF node.kind \notin allowed THEN "Solar expr blocked: " \o node.kind
    ELSE IF node.kind = "Attribute" /\ StartsWith(node.id, "__") THEN "Solar expr blocked: dunder attribute"
    ELSE IF node.kind = "Name" /\ node.id \in dangerous_names THEN "Solar expr blocked: dangerous name"
    ELSE ""

\* a walk that does not descend: it never appends a child to the queue
walk_root_only(node) == <<>>

\* ast.walk: one step takes the first node of the queue and appends its
\* children
walk_children(node) == node.kids

\* the whole loop, for a queue of nodes still to visit
RECURSIVE walk_check(_)
walk_check(todo) ==
    IF todo = <<>> THEN ""
    ELSE IF node_check(Head(todo)) # "" THEN node_check(Head(todo))
    ELSE walk_check(Tail(todo) \o walk_children(Head(todo)))

\* the names env.update({...}) binds after env.update(vars_)
safe_names ==
    {"math", "random", "min", "max", "abs", "round", "int", "float", "str", "len",
     "clamp", "randint"}

SafeValue(name) == IF name \in {"math", "random"} THEN ObjV(name) ELSE FuncV(name)

\* env with the updates the other way round: the safe names, then the
\* store over them
env_lookup_store_last(store, name) ==
    IF name \in DOMAIN store THEN <<store[name]>>
    ELSE IF name \in safe_names THEN <<SafeValue(name)>>
    ELSE <<>>

\* env: the store, then the safe names over it
env_lookup(store, name) ==
    IF name \in safe_names THEN <<SafeValue(name)>>
    ELSE IF name \in DOMAIN store THEN <<store[name]>>
    ELSE <<>>

\* an entry of the log of an evaluation: a callable that was invoked and,
\* for a method that changes its object, the object and its new elements
Called(f) == [f |-> f, obj |-> 0, s |-> ""]

Mutated(f, id, s) == [f |-> f, obj |-> id, s |-> s]

\* the elements of the list object id after the calls of the log
RECURSIVE Latest(_, _, _)
Latest(calls, id, s) ==
    IF calls = <<>> THEN s
    ELSE IF calls[Len(calls)].obj = id /\ id # 0 THEN calls[Len(calls)].s
    ELSE Latest(SubSeq(calls, 1, Len(calls) - 1), id, s)

\* list.append(item) on the printed elements
list_append(s, item) ==
    IF s = "[]" THEN "[" \o item \o "]"
    ELSE SubSeq(s, 1, Len(s) - 1) \o ", " \o item \o "]"

\* the store after an evaluation: env holds the same objects as vars_, so
\* what a method did to an object of env shows in vars_
Heap(store, calls) ==
    [n \in DOMAIN store |->
        IF store[n].t = "list" THEN ListV(store[n].n, Latest(calls, store[n].n, store[n].s))
        ELSE store[n]]

\* the outcome of evaluating a node: a value or an exception, and the
\* callables invoked on the way, in order
Out(ok, v, e, calls) == [ok |-> ok, v |-> v, err |-> e, calls |-> calls]

Fail(type, msg, calls) == Out(FALSE, NoneV, Exc(type, msg, 0), calls)

IsNumber(v) == v.t \in {"int", "float", "bool"}

\* a number as n * 10^-e with the given e
Scaled(v, e) == v.n * Pow10(e - v.e)

MaxE(a, b) == IF a.e > b.e THEN a.e ELSE b.e

NumResult(a, b, n, e) == IF a.t = "float" \/ b.t = "float" THEN FloatV(n, e) ELSE IntV(n)

\* a binary operator of the host on two values
py_binop(op, a, b, calls) ==
    IF op \in {"Add", "Sub"} /\ IsNumber(a) /\ IsNumber(b)
    THEN LET e == MaxE(a, b) IN
         Out(TRUE, NumResult(a, b, IF op = "Add" THEN Scaled(a, e) + Scaled(b, e)
                                   ELSE Scaled(a, e) - Scaled(b, e), e), NoErr, calls)
    ELSE IF op = "Mult" /\ IsNumber(a) /\ IsNumber(b)
    THEN Out(TRUE, NumResult(a, b, a.n * b.n, a.e + b.e), NoErr, calls)
    ELSE IF op = "Add" /\ a.t = "str" /\ b.t = "str" THEN Out(TRUE, StrV(a.s \o b.s), NoErr, calls)
    ELSE Fail("TypeError", "unsupported operand type(s)", calls)

py_compare(op, a, b, calls) ==
    IF op \in {"Eq", "NotEq"}
    THEN LET same == IF IsNumber(a) /\ IsNumber(b)
                     THEN Scaled(a, MaxE(a, b)) = Scaled(b, MaxE(a, b))
                     ELSE a = b
         IN  Out(TRUE, BoolV(IF op = "Eq" THEN same ELSE ~same), NoErr, calls)
    ELSE IF IsNumber(a) /\ IsNumber(b)
    THEN LET x == Scaled(a, MaxE(a, b))
             y == Scaled(b, MaxE(a, b))
         IN  Out(TRUE, BoolV(CASE op = "Lt" -> x < y [] op = "LtE" -> x <= y
                               [] op = "Gt" -> x > y [] op = "GtE" -> x >= y), NoErr, calls)
    ELSE IF a.t = "str" /\ b.t = "str" /\ a.s = b.s
    THEN Out(TRUE, BoolV(op \in {"LtE", "GtE"}), NoErr, calls)
    ELSE Fail("TypeError", "not supported between instances", calls)

\* str(v)
py_str(v) == IF v.t = "str" THEN v.s ELSE PyRepr(v)

\* a call of a callable value with argument values
py_call(f, args, calls) ==
    LET done == Append(calls, Called(f.s))
        n == Len(args)
    IN  IF f.t = "method" /\ n = 1
        THEN Out(TRUE, NoneV, NoErr,
                 Append(calls, Mutated("append", f.n, list_append(Latest(calls, f.n, f.s), PyRepr(args[1])))))
        ELSE IF f.t # "function" THEN Fail("TypeError", "object is not callable", calls)
        ELSE IF f.s = "abs" /\ n = 1 /\ IsNumber(args[1])
        THEN Out(TRUE, Val(IF args[1].t = "float" THEN "float" ELSE "int", Abs(args[1].n), args[1].e, ""), NoErr, done)
        ELSE IF f.s = "len" /\ n = 1 /\ args[1].t = "str" THEN Out(TRUE, IntV(Len(args[1].s)), NoErr, done)
        ELSE IF f.s = "str" /\ n = 1 THEN Out(TRUE, StrV(py_str(args[1])), NoErr, done)
        ELSE IF f.s = "int" /\ n = 1 /\ args[1].t \in {"int", "bool"} THEN Out(TRUE, IntV(args[1].n), NoErr, done)
        ELSE IF f.s = "int" /\ n = 1 /\ args[1].t = "str" /\ IsIntText(Strip(args[1].s))
        THEN Out(TRUE, IntV(IntOf(Strip(args[1].s))), NoErr, done)
        ELSE IF f.s \in {"max", "min"} /\ n = 2 /\ IsNumber(args[1]) /\ IsNumber(args[2])
        THEN LET lt == py_compare("Lt", args[1], args[2], <<>>).v.n = 1 IN
             Out(TRUE, IF (f.s = "min") = lt THEN args[1] ELSE args[2], NoErr, done)
        ELSE IF f.s = "get" /\ n = 0 THEN Out(TRUE, StrV(""), NoErr, done)
        ELSE Fail("TypeError", "bad call of " \o f.s, done)

\* getattr(v, attr)
py_getattr(v, attr, calls) ==
    IF v.t = "object" /\ v.s = "math" /\ attr = "pi" THEN Out(TRUE, FloatV(314159265, 8), NoErr, calls)
    ELSE IF v.t = "object" /\ v.s \notin {"math", "random"} /\ attr = "get" THEN Out(TRUE, FuncV("get"), NoErr, calls)
    ELSE IF v.t = "list" /\ attr = "append" THEN Out(TRUE, Val("method", v.n, 0, v.s), NoErr, calls)
    ELSE IF attr = "__class__" THEN Out(TRUE, ObjV("type"), NoErr, calls)
    ELSE Fail("AttributeError", "no attribute " \o attr, calls)

\* eval(compile(tree, ...), {'__builtins__': {}}, env): operands are
\* evaluated left to right, the callee before its arguments
RECURSIVE py_eval(_, _, _)
RECURSIVE py_eval_args(_, _, _, _)
py_eval_args(nodes, store, calls, acc) ==
    IF nodes = <<>> THEN Out(TRUE, NoneV, NoErr, calls) @@ [vs |-> acc]
    ELSE LET r == py_eval(Head(nodes), store, calls) IN
         IF r.ok THEN py_eval_args(Tail(nodes), store, r.calls, Append(acc, r.v))
         ELSE r @@ [vs |-> acc]

py_eval(node, store, calls) ==
    CASE node.kind = "Expression" -> py_eval(node.kids[1], store, calls)
      [] node.kind = "Constant" -> Out(TRUE, node.v, NoErr, calls)
      [] node.kind = "Name" ->
            IF env_lookup(store, node.id) # <<>>
            THEN Out(TRUE, Heap(env_lookup(store, node.id), calls)[1], NoErr, calls)
            ELSE IF node.id = "__builtins__" THEN Out(TRUE, DictV, NoErr, calls)
            ELSE Fail("NameError", "name '" \o node.id \o "' is not defined", calls)
      [] node.kind \in {"BinOp", "Compare"} ->
            LET l == py_eval(node.kids[1], store, calls) IN
            IF ~l.ok THEN l
            ELSE LET r == py_eval(node.kids[3], store, l.calls) IN
                 IF ~r.ok THEN r
                 ELSE IF node.kind = "BinOp" THEN py_binop(node.kids[2].kind, l.v, r.v, r.calls)
                 ELSE py_compare(node.kids[2].kind, l.v, r.v, r.calls)
      [] node.kind = "Attribute" ->
            LET o == py_eval(node.kids[1], store, calls) IN
            IF o.ok THEN py_getattr(o.v, node.id, o.calls) ELSE o
      [] node.kind = "Call" ->
            LET f == py_eval(node.kids[1], store, calls) IN
            IF ~f.ok THEN f
            ELSE LET a == py_eval_args(Tail(node.kids), store, f.calls, <<>>) IN
                 IF ~a.ok THEN Out(FALSE, NoneV, a.err, a.calls)
                 ELSE py_call(f.v, a.vs, a.calls)
      [] OTHER -> Fail("TypeError", "expression form outside the model: " \o node.kind, calls)

\* ast.parse(expr_src, mode='eval') for the expression texts of the model:
\* <<tree>>, or <<>> when the text is no Python expression
ast_parse(expr_src) ==
    CASE expr_src = "(__class__)" -> <<Expression(Name("__class__"))>>
      [] expr_src = "open ('f')" -> <<Expression(CallN(Name("open"), <<Const(StrV("f"))>>))>>
      [] expr_src = "exec ('1')" -> <<Expression(CallN(Name("exec"), <<Const(StrV("1"))>>))>>
      [] expr_src = "x.append(3)" ->
            <<Expression(CallN(Attr(Name("x"), "append"), <<Const(IntV(3))>>))>>
      [] expr_src = "max(x.append(3), x.append(4))" ->
            <<Expression(CallN(Name("max"), <<CallN(Attr(Name("x"), "append"), <<Const(IntV(3))>>),
                                              CallN(Attr(Name("x"), "append"), <<Const(IntV(4))>>)>>))>>
      [] expr_src = "(1 + 2)" -> <<Expression(BinOp(Const(IntV(1)), "Add", Const(IntV(2))))>>
      [] expr_src = "(x + 1)" -> <<Expression(BinOp(Name("x"), "Add", Const(IntV(1))))>>
      [] expr_src = "x > 1" -> <<Expression(Compare(Name("x"), "Gt", Const(IntV(1))))>>
      [] expr_src = "x == 1" -> <<Expression(Compare(Name("x"), "Eq", Const(IntV(1))))>>
      [] expr_src = "abs (x)" -> <<Expression(CallN(Name("abs"), <<Name("x")>>))>>
      [] expr_src = "(x.__class__)" -> <<Expression(Attr(Name("x"), "__class__"))>>
      [] expr_src = "__class__" -> <<Expression(Name("__class__"))>>
      [] expr_src = "open('f')" -> <<Expression(CallN(Name("open"), <<Const(StrV("f"))>>))>>
      [] expr_src = "exec('1')" -> <<Expression(CallN(Name("exec"), <<Const(StrV("1"))>>))>>
      [] expr_src = "x.__class__" -> <<Expression(Attr(Name("x"), "__class__"))>>
      [] expr_src = "x + 1" -> <<Expression(BinOp(Name("x"), "Add", Const(IntV(1))))>>
      [] expr_src \in {"y", "x", "abs", "len", "clamp"} -> <<Expression(Name(expr_src))>>
      [] expr_src = "abs(x)" -> <<Expression(CallN(Name("abs"), <<Name("x")>>))>>
      [] expr_src = "abs(eval)" -> <<Expression(CallN(Name("abs"), <<Name("eval")>>))>>
      [] expr_src = "math.pi" -> <<Expression(Attr(Name("math"), "pi"))>>
      [] expr_src = "e.get()" -> <<Expression(CallN(Attr(Name("e"), "get"), <<>>))>>
      [] expr_src = "max(abs(x), 1)" ->
            <<Expression(CallN(Name("max"), <<CallN(Name("abs"), <<Name("x")>>), Const(IntV(1))>>))>>
      [] expr_src = "max(abs(x), x.__class__)" ->
            <<Expression(CallN(Name("max"), <<CallN(Name("abs"), <<Name("x")>>),
                                              Attr(Name("x"), "__class__")>>))>>
      [] expr_src = "max(len(e.get()), e.__sizeof__())" ->
            <<Expression(CallN(Name("max"),
                               <<CallN(Name("len"), <<CallN(Attr(Name("e"), "get"), <<>>)>>),
                                 CallN(Attr(Name("e"), "__sizeof__"), <<>>)>>))>>
      [] expr_src = "abs(x) + (lambda: 1)()" ->
            <<Expression(BinOp(CallN(Name("abs"), <<Name("x")>>), "Add",
                               CallN(Node("Lambda", "", NoneV,
                                          <<Node("arguments", "", NoneV, <<>>), Const(IntV(1))>>),
                                     <<>>)))>>
      [] OTHER -> <<>>

\* __eval_expr(expr_src) against the store, start to finish
eval_expr(expr_src, store) ==
    LET tree == ast_parse(expr_src) IN
    IF tree = <<>> THEN Fail("SyntaxError", "invalid syntax", <<>>)
    ELSE IF walk_check(tree) # "" THEN Fail("ValueError", walk_check(tree), <<>>)
    ELSE py_eval(tree[1], store, <<>>)

(***************************************************************************)
(* The Python host, as far as the generated module exercises it:           *)
(* run_compiled parses the whole module with ast.parse before anything     *)
(* runs, then executes __run line by line.                                 *)
(***************************************************************************)
\* What a passthrough line is to Python, for the shapes the front end
\* hands through: "syntax_error" makes ast.parse reject the module.
py_raw_kind(raw) ==
    LET s == Strip(raw)
        t == tokenize_line(s)
    IN  IF s = "" \/ StartsWith(s, "#") THEN "blank"
        ELSE IF ~t.ok THEN "syntax_error"
        ELSE IF StartsWith(s, "vars_[") /\ Contains(s, "=") THEN "store"
        ELSE IF StartsWith(s, "def ") /\ EndsWith(s, ":") THEN "def"
        ELSE IF StartsWith(s, "import ") THEN "import"
        ELSE IF StartsWith(s, "return") THEN "return"
        ELSE IF Len(t.toks) = 3 /\ t.toks[2].t = "=" /\ IsIdentifier(t.toks[1].t) THEN "assign"
        ELSE IF Len(t.toks) = 1 /\ ~t.toks[1].q /\ IsIdentifier(s) THEN "name"
        ELSE IF Len(t.toks) = 1 /\ (t.toks[1].q \/ IsIntText(s)) THEN "const"
        ELSE IF \A j \in 1..Len(t.toks) : t.toks[j].q \/ IsIdentifier(t.toks[j].t) \/ IsIntText(t.toks[j].t)
        THEN "syntax_error"
        ELSE "other"

\* the column a generated line starts at
Col(ln) ==
    4 * ln.ind + (IF ln.op = "raw" THEN Len(ln.names[1]) - Len(LStrip(ln.names[1])) ELSE 0)

IsBlankLine(ln) ==
    ln.op = "raw" /\ (Strip(ln.names[1]) = "" \/ StartsWith(Strip(ln.names[1]), "#"))

\* a line that opens a block: the next line must be indented deeper
IsHeaderLine(lines, j) ==
    \/ lines[j].op \in {"if", "PgLoop"}
    \/ lines[j].op = "raw" /\ py_raw_kind(lines[j].names[1]) = "def"
    \/ /\ lines[j].op # "raw"
       /\ j < Len(lines)
       /\ lines[j + 1].cont
       /\ lines[j + 1].ind > lines[j].ind

\* the text of one line is well-formed Python
line_ok(ln) ==
    CASE ln.op = "raw" -> py_raw_kind(ln.names[1]) # "syntax_error"
      [] ln.op = "fn_chk" -> ~Contains(ln.names[1], "'") /\ ~EndsWith(ln.names[1], "\\")
      [] OTHER -> TRUE

RECURSIVE PopTo(_, _)
PopTo(cols, c) ==
    IF cols = <<>> \/ cols[Len(cols)] = c THEN cols ELSE PopTo(SubSeq(cols, 1, Len(cols) - 1), c)

\* the indentation of the body of __run is consistent: cols is the stack
\* of the columns of the open blocks
RECURSIVE block_check(_, _, _, _)
block_check(lines, j, cols, after_header) ==
    IF j > Len(lines) THEN ~after_header
    ELSE IF IsBlankLine(lines[j]) THEN block_check(lines, j + 1, cols, after_header)
    ELSE LET c == Col(lines[j])
             top == cols[Len(cols)]
         IN  IF after_header
             THEN c > top /\ block_check(lines, j + 1, Append(cols, c), IsHeaderLine(lines, j))
             ELSE /\ c <= top
                  /\ PopTo(cols, c) # <<>>
                  /\ block_check(lines, j + 1, PopTo(cols, c), IsHeaderLine(lines, j))

PyKeywords == {"if", "else", "for", "while", "def", "class", "import", "from", "in", "is",
               "not", "and", "or", "pass", "return", "try", "with", "as", "None", "True", "False"}

\* ast.parse(py_src, mode="exec") accepts the module
module_ok(pre, lines) ==
    /\ \A j \in 1..Len(pre) : pre[j] \notin PyKeywords
    /\ \A j \in 1..Len(lines) : line_ok(lines[j])
    /\ block_check(lines, 1, <<4>>, FALSE)

\* the modules the host can import
Importable == {"os", "sys", "math", "random", "time", "json"}

\* the names a bare name in __run resolves to: run_compiled's builtins and
\* globals, and the locals of __run
KnownPyNames ==
    {"print", "eval", "compile", "str", "int", "float", "bool", "len", "range", "list",
     "dict", "set", "tuple", "min", "max", "abs", "round", "getattr", "hasattr",
     "callable", "isinstance", "NameError", "TypeError", "ValueError", "Exception",
     "tk", "ctk", "ast", "vars_", "funcs", "math", "random"}

\* __truthy(v)
truthy(v) ==
    CASE v.t \in {"int", "float", "bool"} -> v.n # 0
      [] v.t = "str" -> v.s # ""
      [] v.t = "NoneType" -> FALSE
      [] OTHER -> TRUE

Get(store, name) == IF name \in DOMAIN store THEN store[name] ELSE NoneV

Put(store, name, v) == [n \in DOMAIN store \cup {name} |-> IF n = name THEN v ELSE store[n]]

\* the text between the parentheses of head(...)
Inside(text, head) == SubSeq(text, Len(head) + 1, Len(text) - 1)

\* the value of an expression text written by expr_to_py, against the store
py_eval_text(text, store) ==
    IF StartsWith(text, "vars_.get(")
    THEN Out(TRUE, Get(store, PyStrLit(Inside(text, "vars_.get(")).s), NoErr, <<>>)
    ELSE IF StartsWith(text, "__eval_expr(")
    THEN eval_expr(PyStrLit(Inside(text, "__eval_expr(")).s, store)
    ELSE Out(TRUE, PyLiteral(text), NoErr, <<>>)

\* the argument texts of a call, left to right, up to the first that raises
RECURSIVE py_eval_texts(_, _, _)
py_eval_texts(texts, store, acc) ==
    IF texts = <<>> THEN [ok |-> TRUE, vs |-> acc, err |-> NoErr]
    ELSE LET r == py_eval_text(Head(texts), store) IN
         IF r.ok THEN py_eval_texts(Tail(texts), store, Append(acc, r.v))
         ELSE [ok |-> FALSE, vs |-> acc, err |-> r.err]

(***************************************************************************)
(* interpreter.py, default_funcs: every built-in prints its result.        *)
(***************************************************************************)
Binary == {"add", "sub", "mul", "div", "mod", "pow", "min", "max", "randint"}

Unary == {"abs", "floor", "ceil", "round", "sin", "cos", "tan", "sqrt", "strlen", "upper", "lower"}

BuiltinNames == Binary \cup Unary \cup {"rand", "print_many", "print"}

default_funcs == [n \in BuiltinNames |-> FuncV(n)]

\* a call of a built-in: what it prints, or the exception it raises
call_builtin(name, args) ==
    LET n == Len(args)
        wrong == [ok |-> FALSE, printed |-> <<>>, err |-> Exc("TypeError", "wrong number of arguments", 0)]
        one(r) == [ok |-> r.ok, printed |-> IF r.ok THEN <<r.v>> ELSE <<>>, err |-> r.err]
    IN  IF name \in {"print_many", "print"} THEN [ok |-> TRUE, printed |-> args, err |-> NoErr]
        ELSE IF name \in Binary /\ n # 2 THEN wrong
        ELSE IF name \in Unary /\ n # 1 THEN wrong
        ELSE IF name = "rand" /\ n # 0 THEN wrong
        ELSE IF name = "add" THEN one(py_binop("Add", args[1], args[2], <<>>))
        ELSE IF name = "sub" THEN one(py_binop("Sub", args[1], args[2], <<>>))
        ELSE IF name = "mul" THEN one(py_binop("Mult", args[1], args[2], <<>>))
        ELSE IF name \in {"abs", "min", "max"} THEN one(py_call(FuncV(name), args, <<>>))
        ELSE IF name = "strlen" THEN one(Out(TRUE, IntV(Len(py_str(args[1]))), NoErr, <<>>))
        ELSE [ok |-> TRUE, printed |-> <<ObjV(name)>>, err |-> NoErr]

(***************************************************************************)
(* The runs.  A program is at most MaxLines source lines drawn from a pool *)
(* of lines; main() of interpreter.py parses it (parse_prog), lowers it    *)
(* (actual_interpreter_func) and runs the result (run_compiled).           *)
(***************************************************************************)
Programs(pool) == UNION {[1..n -> pool] : n \in 1..MaxLines}

\* binding lines: a name with every literal token
IntTokens == {"5", "-3", "007"}

DecimalTokens == {"1.5", "2."}

QuotedTokens == {"\"a b\"", "'42'", "'it\\'s'"}

LiteralTokens == IntTokens \cup DecimalTokens \cup QuotedTokens

LetLines == {"let x = " \o t : t \in LiteralTokens} \cup {"let total = 5"}

\* lines parse_solar_line fails on
MalformedLets == {"let x", "let x is 5"}

BadLines == MalformedLets \cup {"print", "\"abc", "(1 +", "ui label w 1 2", "ui foo w", "ui title w"}

InterpPool ==
    LetLines \cup BadLines \cup
    {"let y = x", "let y = (x + 1)", "print x", "print \"x\"",
     "if x then print 1", "if 0 then let x = 5", "if 1 then print \"42\"",
     "if \"x\" then print 1", "if 1 then ui window w", "if x then call nope",
     "call print_many x \"a\"", "call nope", "add x 2", "say \"a=b\"",
     "ui window w", "def h():", "    return 1"}

NoFn == NoneV

\* the host's state beside the store and the registry: the local _fn, the
\* windows alive and destroyed, the defs bound, the widgets, the buttons
\* with their callbacks, whether mainloop is running, the clicks so far,
\* the exceptions Tk reported for callbacks, and __pg: for each window of
\* pygame its running flag and whether its events hold a quit event
InitPy ==
    [fn |-> NoFn, wins |-> {}, dead |-> {}, defs |-> {}, widgets |-> {}, buttons |-> <<>>,
     loop |-> FALSE, clicks |-> 0, reported |-> <<>>, pg |-> <<>>]

NoEv == [phase |-> "idle", tree |-> <<>>, todo |-> <<>>, seen |-> <<>>, out |-> Out(TRUE, NoneV, NoErr, <<>>)]

\* main was not called
NoCli == [argv |-> <<>>, cmd |-> "", file |-> "", code |-> -1, printed |-> <<>>]

InitRun ==
    /\ cli = NoCli
    /\ in_py_block = FALSE
    /\ program = <<>>
    /\ origin = <<>>
    /\ err = NoErr
    /\ lowered = 0
    /\ indent = 1
    /\ pg_loop_stack = <<>>
    /\ prelude = <<>>
    /\ run_lines = <<>>
    /\ pc = 0
    /\ stack = <<>>
    /\ pyenv = InitPy
    /\ output = <<>>
    /\ trace = <<>>

\* a program with loops is made of at most this many fragments
MaxLoopChunks == 2

\* fragments of programs with pg loops: windows, loops that a stop or a
\* quit event ends, a loop that nothing ends, a loop without a body, and
\* a loop in a loop
LoopPool ==
    { <<"pg window w 1 1 \"t\"">>,
      <<"pg window v 1 1 \"t\"">>,
      <<"pg loop w", "print 1", "pg stop w", "print 2", "pg end", "print 3">>,
      <<"pg loop w", "pg poll w", "pg quitif w", "print 1", "pg end", "print 3">>,
      <<"pg loop w", "print 1", "if 1 then pg stop w", "pg end">>,
      <<"pg loop w", "print 1", "pg end", "print 3">>,
      <<"pg loop w", "pg end", "print 3">>,
      <<"pg loop w", "pg loop v", "pg stop v", "pg end", "pg stop w", "pg end", "print 3">>,
      <<"pg end", "print 3">> }

RECURSIVE FlattenLines(_)
FlattenLines(chunks) == IF chunks = <<>> THEN <<>> ELSE Head(chunks) \o FlattenLines(Tail(chunks))

LoopPrograms == {FlattenLines(c) : c \in UNION {[1..n -> LoopPool] : n \in 1..MaxLoopChunks}}

InitInterp ==
    /\ mode = "interp"
    /\ src \in Programs(InterpPool) \cup LoopPrograms
    /\ i = 0
    /\ phase = "parse"
    /\ vars_ = <<>>
    /\ funcs = default_funcs
    /\ ev = NoEv
    /\ InitRun

\* what a pass of parse_prog's loop does to the parser's state
ParsePass(r) ==
    IF r.err # NoErr
    THEN /\ phase' = "ended"
         /\ err' = r.err
         /\ UNCHANGED <<i, in_py_block, program, origin>>
    ELSE /\ program' = program \o r.stmts
         /\ origin' = origin \o [j \in 1..Len(r.stmts) |-> i + 1]
         /\ in_py_block' = r.flag
         /\ i' = i + 1
         /\ phase' = IF i + 1 < Len(src) THEN "parse" ELSE "lower"
         /\ err' = err

\* one pass of parse_prog's loop over the lines
ParseProgLine ==
    /\ mode \in {"interp", "parse_prog"}
    /\ phase = "parse"
    /\ i < Len(src)
    /\ ParsePass(parse_prog_pass(src[i + 1], i + 1, in_py_block))
    /\ UNCHANGED <<cli, mode, src, lowered, indent, pg_loop_stack, prelude, run_lines, pc, stack,
                   vars_, funcs, pyenv, output, trace, ev>>

(***************************************************************************)
(* parse_prog on its own, over texts with passthrough blocks: SpecProg.    *)
(***************************************************************************)
\* the texts have at most this many lines
MaxBlockLines == 4

\* blank and comment lines, indented lines, block openers, a contain line
\* and lines of Solar and of Python
BlockLines ==
    {"", "# c", "    return 1", "\tpass", "def h():", "  if x:", "print 1", "contain os"}

InitProg ==
    /\ mode = "parse_prog"
    /\ src \in UNION {[1..n -> BlockLines] : n \in 1..MaxBlockLines}
    /\ i = 0
    /\ phase = "parse"
    /\ vars_ = <<>>
    /\ funcs = <<>>
    /\ ev = NoEv
    /\ InitRun

NextProg == ParseProgLine

SpecProg == InitProg /\ [][NextProg]_vars

\* the lines of a statement, each marked with the statement's position
Stamp(lines, p) == [j \in 1..Len(lines) |-> lines[j] @@ [of |-> p]]

\* the pass with the statement's lines put before the lines emitted so far
LowerStmtFirst ==
    /\ mode = "interp"
    /\ phase = "lower"
    /\ lowered < Len(program)
    /\ run_lines' = Stamp(lower_stmt(program[lowered + 1], indent), lowered + 1) \o run_lines
    /\ indent' = indent_after(program[lowered + 1], indent, pg_loop_stack)
    /\ pg_loop_stack' = loops_after(program[lowered + 1], pg_loop_stack)
    /\ prelude' = prelude_after(program[lowered + 1], prelude)
    /\ lowered' = lowered + 1
    /\ UNCHANGED <<cli, mode, src, phase, i, in_py_block, program, origin, err, pc, stack,
                   vars_, funcs, pyenv, output, trace, ev>>

\* one pass of actual_interpreter_func's loop over the program
LowerStmt ==
    /\ mode = "interp"
    /\ phase = "lower"
    /\ lowered < Len(program)
    /\ LET st == program[lowered + 1] IN
       /\ run_lines' = run_lines \o Stamp(lower_stmt(st, indent), lowered + 1)
       /\ indent' = indent_after(st, indent, pg_loop_stack)
       /\ pg_loop_stack' = loops_after(st, pg_loop_stack)
       /\ prelude' = prelude_after(st, prelude)
    /\ lowered' = lowered + 1
    /\ UNCHANGED <<cli, mode, src, phase, i, in_py_block, program, origin, err, pc, stack,
                   vars_, funcs, pyenv, output, trace, ev>>

\* the end of actual_interpreter_func: the module text is returned
FinishLowering ==
    /\ mode = "interp"
    /\ phase = "lower"
    /\ lowered = Len(program)
    /\ phase' = "load"
    /\ UNCHANGED <<cli, mode, src, i, in_py_block, program, origin, err, lowered, indent,
                   pg_loop_stack, prelude, run_lines, pc, stack, vars_, funcs, pyenv,
                   output, trace, ev>>

\* a line sequential execution passes over: a blank, or a line run as part
\* of its group
Skipped(j) == run_lines[j].cont \/ IsBlankLine(run_lines[j])

\* the first line at or after j that executes, Len + 1 when there is none
RECURSIVE Seek(_)
Seek(j) == IF j > Len(run_lines) THEN Len(run_lines) + 1 ELSE IF Skipped(j) THEN Seek(j + 1) ELSE j

\* the first line after the block that the header h opens
RECURSIVE BlockEnd(_, _)
BlockEnd(h, j) ==
    IF j > Len(run_lines) THEN j
    ELSE IF ~IsBlankLine(run_lines[j]) /\ Col(run_lines[j]) <= Col(run_lines[h]) THEN j
    ELSE BlockEnd(h, j + 1)

\* the header of the innermost while loop around line j, 0 when there is
\* none; h is where the search is
RECURSIVE LoopFrom(_, _)
LoopFrom(j, h) ==
    IF h = 0 THEN 0
    ELSE IF run_lines[h].op = "PgLoop" /\ BlockEnd(h, h + 1) > j THEN h
    ELSE LoopFrom(j, h - 1)

LoopOf(j) == LoopFrom(j, j - 1)

\* the end of the body falls through to the line after the loop
ResumeBelow(h, n) == n

\* where control goes from line j when the next line in the text is n: at
\* the end of the body of a while loop, back to its header
Resume(h, n) == IF h # 0 /\ n >= BlockEnd(h, h + 1) THEN h ELSE n

\* the line that runs after line j when the line at x is next in the text
After(j, x) == Resume(LoopOf(j), Seek(x))

\* run_compiled: ast.parse of the module, the module-level imports, and
\* the call of __run with an empty store
LoadModule ==
    /\ mode = "interp"
    /\ phase = "load"
    /\ IF ~module_ok(prelude, run_lines)
       THEN phase' = "ended" /\ err' = Exc("SyntaxError", "invalid syntax", 0) /\ pc' = pc
       ELSE IF \E j \in 1..Len(prelude) : prelude[j] \notin Importable
       THEN phase' = "ended" /\ err' = Exc("ModuleNotFoundError", "No module", 0) /\ pc' = pc
       ELSE phase' = "run" /\ err' = err /\ pc' = Seek(1)
    /\ UNCHANGED <<cli, mode, src, i, in_py_block, program, origin, lowered, indent, pg_loop_stack,
                   prelude, run_lines, stack, vars_, funcs, pyenv, output, trace, ev>>

(***************************************************************************)
(* The body of __run, one generated line per step.                         *)
(***************************************************************************)
Line == run_lines[pc]

Running(ops) == mode = "interp" /\ phase = "run" /\ pc <= Len(run_lines) /\ Line.op \in ops

\* the line raised: the exception leaves __run, run_compiled and main
Raise(e) == phase' = "ended" /\ err' = e /\ pc' = pc

Goto(j) == phase' = phase /\ err' = err /\ pc' = j

\* t: the truth value an if line found; for other lines, that the line
\* completed; cb: the line ran under a callback of Tk
Traced(t) ==
    trace' = Append(trace, [ln |-> pc, t |-> t, cb |-> stack # <<>> /\ stack[Len(stack)].cb])

\* vars_[name] = expr
ExecAssign ==
    /\ Running({"assign"})
    /\ LET r == py_eval_text(Line.args[1], vars_) IN
       /\ Traced(r.ok)
       /\ IF r.ok
          THEN vars_' = Put(vars_, PyStrLit(Line.names[1]).s, r.v) /\ Goto(After(pc, pc + 1))
          ELSE vars_' = vars_ /\ Raise(r.err)
    /\ UNCHANGED <<cli, mode, src, i, in_py_block, program, origin, lowered, indent, pg_loop_stack,
                   prelude, run_lines, stack, funcs, pyenv, output, ev>>

\* print(expr)
ExecPrint ==
    /\ Running({"print"})
    /\ LET r == py_eval_text(Line.args[1], vars_) IN
       /\ Traced(r.ok)
       /\ IF r.ok
          THEN output' = Append(output, <<r.v>>) /\ Goto(After(pc, pc + 1))
          ELSE output' = output /\ Raise(r.err)
    /\ UNCHANGED <<cli, mode, src, i, in_py_block, program, origin, lowered, indent, pg_loop_stack,
                   prelude, run_lines, stack, vars_, funcs, pyenv, ev>>

\* if __truthy(expr):
ExecIf ==
    /\ Running({"if"})
    /\ LET r == py_eval_text(Line.args[1], vars_) IN
       /\ Traced(r.ok /\ truthy(r.v))
       /\ IF ~r.ok THEN Raise(r.err)
          ELSE IF truthy(r.v) THEN Goto(After(pc, pc + 1))
          ELSE Goto(After(pc, BlockEnd(pc, pc + 1)))
    /\ UNCHANGED <<cli, mode, src, i, in_py_block, program, origin, lowered, indent, pg_loop_stack,
                   prelude, run_lines, stack, vars_, funcs, pyenv, output, ev>>

\* the three lines of a call: _fn = funcs.get(name); the None check; _fn(args)
ExecCall ==
    /\ Running({"fn_get", "fn_chk", "fn_call"})
    /\ \/ /\ Line.op = "fn_get"
          /\ pyenv' = [pyenv EXCEPT !.fn = Get(funcs, PyStrLit(Line.names[1]).s)]
          /\ Traced(TRUE)
          /\ Goto(pc + 1)
          /\ output' = output
       \/ /\ Line.op = "fn_chk"
          /\ Traced(pyenv.fn # NoFn)
          /\ IF pyenv.fn = NoFn
             THEN Raise(Exc("NameError", "Oh noes! Solar threw an error: Unknown function: " \o Line.names[1], 0))
             ELSE Goto(pc + 1)
          /\ UNCHANGED <<pyenv, output>>
       \/ /\ Line.op = "fn_call"
          /\ LET a == py_eval_texts(Line.args, vars_, <<>>)
                 r == IF a.ok THEN call_builtin(pyenv.fn.s, a.vs)
                      ELSE [ok |-> FALSE, printed |-> <<>>, err |-> a.err]
             IN  /\ Traced(r.ok)
                 /\ IF r.ok
                    THEN output' = Append(output, r.printed) /\ Goto(After(pc, pc + 1))
                    ELSE output' = output /\ Raise(r.err)
          /\ pyenv' = pyenv
    /\ UNCHANGED <<cli, mode, src, i, in_py_block, program, origin, lowered, indent, pg_loop_stack,
                   prelude, run_lines, stack, vars_, funcs, ev>>

\* pass: what compile_one emits for a body it does not translate
ExecPass ==
    /\ Running({"pass"})
    /\ Traced(TRUE)
    /\ Goto(After(pc, pc + 1))
    /\ UNCHANGED <<cli, mode, src, i, in_py_block, program, origin, lowered, indent, pg_loop_stack,
                   prelude, run_lines, stack, vars_, funcs, pyenv, output, ev>>

\* the name and the value of a passthrough line vars_['name'] = literal
StoreName(raw) == PyStrLit(BeforeChar(SubSeq(Strip(raw), 7, Len(Strip(raw))), "]")).s

StoreValue(raw) ==
    LET s == Strip(raw) IN
    PyLiteral(Strip(SubSeq(s, Len(BeforeChar(s, "=")) + 2, Len(s))))

\* def name(...): the name
DefName(raw) == BeforeChar(SubSeq(Strip(raw), 5, Len(Strip(raw))), "(")

\* a passthrough line, run by the host as the Python it is
ExecRaw ==
    /\ Running({"raw"})
    /\ LET kind == py_raw_kind(Line.names[1])
           unbound == kind = "name" /\ Strip(Line.names[1]) \notin KnownPyNames \cup pyenv.defs
       IN  /\ Traced(~unbound)
           /\ vars_' = IF kind = "store" THEN Put(vars_, StoreName(Line.names[1]), StoreValue(Line.names[1]))
                       ELSE vars_
           /\ pyenv' = IF kind = "def" THEN [pyenv EXCEPT !.defs = @ \cup {DefName(Line.names[1])}]
                       ELSE pyenv
           /\ IF unbound
              THEN Raise(Exc("NameError", "name '" \o Strip(Line.names[1]) \o "' is not defined", 0))
              ELSE IF kind = "def" THEN Goto(After(pc, BlockEnd(pc, pc + 1)))
              ELSE IF kind = "return" THEN Goto(Len(run_lines) + 1)
              ELSE Goto(After(pc, pc + 1))
    /\ UNCHANGED <<cli, mode, src, i, in_py_block, program, origin, lowered, indent, pg_loop_stack,
                   prelude, run_lines, stack, funcs, output, ev>>

\* the classes of the ui and pg statements that emit lines
UiPgOps ==
    {"UiWindow", "UiTitle", "UiSize", "UiRun", "UiBg", "UiFg", "UiLabel", "UiButton",
     "UiEntry", "UiSlider", "UiCheckbox", "UiBind", "UiText", "UiSet", "UiGetInto",
     "PgInit", "PgWindow", "PgFps", "PgLoop", "PgPoll", "PgQuitIf", "PgStop", "PgClear",
     "PgRect", "PgCircle", "PgText", "PgFlip", "PgTick", "PgKeyInto"}

\* the pg statements that read or write __pg at run time
PgRunOps == {"PgWindow", "PgPoll", "PgQuitIf", "PgStop"}

\* the passes of while loops a run of the model starts are at most this many
MaxPasses == 3

\* the passes started so far
Passes == Cardinality({n \in 1..Len(trace) : trace[n].ln > 0 /\ run_lines[trace[n].ln].op = "PgLoop"
                                              /\ trace[n].t})

\* __pg.get(name, {}).get('running', False)
pg_running(pg, name) == name \in DOMAIN pg /\ pg[name].running

\* int(v) raises
int_error(v) ==
    IF v.t \in {"int", "float", "bool"} THEN ""
    ELSE IF v.t = "str" THEN (IF IsIntText(Strip(v.s)) THEN "" ELSE "ValueError")
    ELSE "TypeError"

\* the exception the lines of a pg window statement raise after the first,
\* "" when they complete: w, h and t are what the expressions evaluate to
pg_window_error(w, h, t) ==
    IF ~w.ok THEN w.err.type
    ELSE IF int_error(w.v) # "" THEN int_error(w.v)
    ELSE IF ~h.ok THEN h.err.type
    ELSE IF int_error(h.v) # "" THEN int_error(h.v)
    ELSE IF ~t.ok THEN t.err.type
    ELSE ""

\* the exception the lines of a pg statement raise, "" when they complete
pg_error(ln, name, pg, store) ==
    IF ln.op \in {"PgPoll", "PgQuitIf"} THEN (IF name \in DOMAIN pg THEN "" ELSE "KeyError")
    ELSE IF ln.op = "PgWindow"
    THEN pg_window_error(py_eval_text(ln.args[1], store), py_eval_text(ln.args[2], store),
                         py_eval_text(ln.args[3], store))
    ELSE ""

\* __pg after the first line of a pg window statement
pg_created(pg, name) == Put(pg, name, [running |-> TRUE, quit |-> FALSE])

\* __pg after the lines of a pg statement that completes; quit: the events
\* pygame.event.get() returns hold a quit event
pg_after(ln, name, pg, quit) ==
    CASE ln.op = "PgWindow" -> pg_created(pg, name)
      [] ln.op = "PgPoll" -> Put(pg, name, [pg[name] EXCEPT !.quit = quit])
      [] ln.op = "PgQuitIf" -> IF pg[name].quit THEN Put(pg, name, [pg[name] EXCEPT !.running = FALSE]) ELSE pg
      [] ln.op = "PgStop" -> IF name \in DOMAIN pg THEN Put(pg, name, [pg[name] EXCEPT !.running = FALSE]) ELSE pg

\* the lines of a pg window, poll, quitif or stop statement
ExecPg ==
    /\ Running(PgRunOps)
    /\ \E name \in {Line.names[1]} :
       \E e \in {pg_error(Line, name, pyenv.pg, vars_)} :
          /\ Traced(e = "")
          /\ IF e # ""
             THEN /\ Raise(Exc(e, Line.op, 0))
                  /\ pyenv' = IF Line.op = "PgWindow"
                              THEN [pyenv EXCEPT !.pg = pg_created(pyenv.pg, name)]
                              ELSE pyenv
             ELSE /\ Goto(After(pc, pc + 1))
                  /\ \E quit \in BOOLEAN :
                        /\ Line.op # "PgPoll" => ~quit
                        /\ pyenv' = [pyenv EXCEPT !.pg = pg_after(Line, name, pyenv.pg, quit)]
    /\ UNCHANGED <<cli, mode, src, i, in_py_block, program, origin, lowered, indent, pg_loop_stack,
                   prelude, run_lines, stack, vars_, funcs, output, ev>>

\* while __pg.get(name, {}).get('running', False): the flag is read, and
\* the body is entered or left behind
ExecLoop ==
    /\ Running({"PgLoop"})
    /\ \E flag \in {pg_running(pyenv.pg, Line.names[1])} :
          /\ flag => Passes < MaxPasses
          /\ Traced(flag)
          /\ IF flag THEN Goto(Seek(pc + 1)) ELSE Goto(After(pc, BlockEnd(pc, pc + 1)))
    /\ UNCHANGED <<cli, mode, src, i, in_py_block, program, origin, lowered, indent, pg_loop_stack,
                   prelude, run_lines, stack, vars_, funcs, pyenv, output, ev>>

\* the lines of one ui or pg statement
ExecGroup ==
    /\ Running(UiPgOps \ (PgRunOps \cup {"PgLoop"}))
    /\ LET name == PyStrLit(Line.names[1]).s
           missing == Line.op \in {"UiTitle", "UiSize", "UiRun"} /\ name \notin pyenv.wins
       IN  /\ Traced(~missing)
           /\ pyenv' = IF Line.op = "UiWindow" THEN [pyenv EXCEPT !.wins = @ \cup {name}] ELSE pyenv
           /\ IF missing THEN Raise(Exc("KeyError", name, 0))
              ELSE Goto(After(pc, pc + 1))
    /\ UNCHANGED <<cli, mode, src, i, in_py_block, program, origin, lowered, indent, pg_loop_stack,
                   prelude, run_lines, stack, vars_, funcs, output, ev>>

\* __run returns
Return ==
    /\ mode = "interp"
    /\ phase = "run"
    /\ pc > Len(run_lines)
    /\ phase' = "ended"
    /\ UNCHANGED <<cli, mode, src, i, in_py_block, program, origin, err, lowered, indent,
                   pg_loop_stack, prelude, run_lines, pc, stack, vars_, funcs, pyenv,
                   output, trace, ev>>

NextInterp ==
    \/ ParseProgLine
    \/ LowerStmt
    \/ FinishLowering
    \/ LoadModule
    \/ ExecAssign
    \/ ExecPrint
    \/ ExecIf
    \/ ExecCall
    \/ ExecPass
    \/ ExecRaw
    \/ ExecPg
    \/ ExecLoop
    \/ ExecGroup
    \/ Return

SpecInterp == InitInterp /\ [][NextInterp]_vars

(***************************************************************************)
(* parse_solar_line called on one line.  The lines are the complete form   *)
(* of every ui and pg sub-command, each of its prefixes of two tokens or   *)
(* more, and the complete form with one marker keyword left out.           *)
(***************************************************************************)
UiForms ==
    {<<"ui", "window", "w">>, <<"ui", "title", "w", "T">>, <<"ui", "size", "w", "3", "4">>,
     <<"ui", "bg", "w", "red">>, <<"ui", "fg", "w", "red">>,
     <<"ui", "label", "w", "l", "T", "at", "1", "2">>,
     <<"ui", "button", "w", "b", "T", "at", "1", "2", "do", "f">>,
     <<"ui", "entry", "w", "e", "at", "1", "2">>,
     <<"ui", "slider", "w", "s", "from", "0", "to", "9", "at", "1", "2">>,
     <<"ui", "checkbox", "w", "c", "T", "at", "1", "2">>,
     <<"ui", "bind", "w", "k", "do", "f">>,
     <<"ui", "text", "l", "T">>, <<"ui", "set", "v", "1">>,
     <<"ui", "get", "v", "into", "x">>, <<"ui", "run", "w">>}

PgForms ==
    {<<"pg", "init">>, <<"pg", "window", "g", "3", "4", "T">>, <<"pg", "fps", "g", "30">>,
     <<"pg", "loop", "g">>, <<"pg", "end">>, <<"pg", "poll", "g">>, <<"pg", "quitif", "g">>,
     <<"pg", "stop", "g">>, <<"pg", "clear", "g", "1", "2", "3">>,
     <<"pg", "rect", "g", "1", "2", "3", "4", "5", "6", "7">>,
     <<"pg", "circle", "g", "1", "2", "3", "4", "5", "6">>,
     <<"pg", "text", "g", "T", "1", "2", "3", "4", "5", "6">>,
     <<"pg", "flip", "g">>, <<"pg", "tick", "g", "30">>,
     <<"pg", "key", "g", "K", "into", "x">>}

Forms == UiForms \cup PgForms

Markers == {"at", "do", "from", "to", "into"}

Prefixes(f) == {SubSeq(f, 1, n) : n \in 2..Len(f)}

Without(f, j) == SubSeq(f, 1, j - 1) \o SubSeq(f, j + 1, Len(f))

Unmarked(f) == {Without(f, j) : j \in {h \in 1..Len(f) : f[h] \in Markers}}

\* binding, conditional and output lines: spans of one and of several
\* tokens, quoted and bare, and the forms cut short
StatementLines ==
    {"let x = y", "let x = 5", "let x = \"a b\"", "let x = a + b", "let x = 1 + 2 * 3",
     "let s = \"a\" + \"b\"", "let x = (a + b) * 2", "let x", "let x =",
     "if x then print 1", "if \"x\" then print 1", "if x > 1 then print x",
     "if a and b then let y = 1", "if (x > 1) then print x y", "if then print 1", "if x then",
     "print", "print x", "print \"a\"", "print x \"a\" 5", "print \"a b\" (x + 1)", "print 1 2",
     "print x+1 y"}

LinePool == {JoinFrom(t, 1) : t \in UNION {Prefixes(f) \cup Unmarked(f) : f \in Forms}} \cup StatementLines

\* the line numbers parse_solar_line is called with
MaxLineNo == 2

InitLine ==
    /\ mode \in {"line", "_parse_line"}
    /\ src \in {<<l>> : l \in LinePool}
    /\ i \in 0..(MaxLineNo - 1)
    /\ phase = "parse"
    /\ vars_ = <<>>
    /\ funcs = <<>>
    /\ ev = NoEv
    /\ InitRun

\* what the call leaves: the statement returned or the exception raised
LineResult(r) ==
    /\ program' = (IF r.ok THEN <<r.st>> ELSE <<>>)
    /\ err' = r.err
    /\ phase' = "ended"

\* parse_solar_line(raw_line, lineno), with lineno = i + 1
ParseSolarLine ==
    /\ mode = "line"
    /\ phase = "parse"
    /\ LineResult(parse_solar_line(src[1], i + 1))
    /\ UNCHANGED <<cli, mode, src, i, in_py_block, origin, lowered, indent, pg_loop_stack, prelude,
                   run_lines, pc, stack, vars_, funcs, pyenv, output, trace, ev>>

(***************************************************************************)
(* The two tokenizers on their own, one token per step: a step is one turn *)
(* of the outer while loop.  i is Python's i (the characters consumed),    *)
(* output the token list so far.                                           *)
(***************************************************************************)
MaxTokLen == 3

TokChars == {"a", " ", "\"", "'", "\\", "(", ")"}

\* every line of at most n characters of TokChars
RECURSIVE Words(_)
Words(n) == IF n = 0 THEN {""} ELSE Words(n - 1) \cup {w \o c : w \in Words(n - 1), c \in TokChars}

\* longer lines: escapes, the other quote inside a string, groups that
\* nest, groups that hold strings, a group after a word
TokLines ==
    {"\"a\\\"b\" c", "'a\"b' \"c'd\"", "'it\\'s' x", "\"a\\\\\" b", "\"a\\", "say \"a b",
     "(\"(\" a)", "(a (b) c) d", "x(a  b) y", "(a \")\" b) c", "((a) b", "(a \"b)", "(')') ('(')",
     "let x = (1 + 2)", "(a))b",
     "(\"a\\\"b\" c)", "(a\\'b 'c\\\\d')", "f (\"\\a\" 'b')",
     "(\"a\\\"b\") ('c' d)"}

TokPool == Words(MaxTokLen) \cup TokLines

InitTok ==
    /\ mode \in {"tokenize_line", "_tokenize_with_quotes"}
    /\ src \in {<<l>> : l \in TokPool}
    /\ i = 0
    /\ phase = "scan"
    /\ vars_ = <<>>
    /\ funcs = <<>>
    /\ ev = NoEv
    /\ InitRun

\* the position of the first character the turn looks at, after the
\* whitespace it skips
TokStart == SkipSpace(src[1], i + 1)

\* the turn appended a token and left i after it
TokRead(tok, j) ==
    /\ output' = Append(output, tok)
    /\ i' = j - 1
    /\ phase' = phase
    /\ err' = err

\* the turn raised: the exception leaves the tokenizer, no list is returned
TokRaise(why) ==
    /\ output' = <<>>
    /\ i' = i
    /\ phase' = "ended"
    /\ err' = Exc("SyntaxError", why, 0)

\* the loop ended: the token list is returned
TokReturn ==
    /\ output' = output
    /\ i' = Len(src[1])
    /\ phase' = "ended"
    /\ err' = err

TokFrame ==
    UNCHANGED <<cli, mode, src, in_py_block, program, origin, lowered, indent, pg_loop_stack, prelude,
                run_lines, pc, stack, vars_, funcs, pyenv, trace, ev>>

\* one turn of the while loop of tokenize_line
TokenizeLineTurn ==
    /\ mode = "tokenize_line"
    /\ phase = "scan"
    /\ IF TokStart > Len(src[1]) THEN TokReturn
       ELSE IF Ch(src[1], TokStart) \in Quotes
       THEN IF read_string(src[1], TokStart, Ch(src[1], TokStart)).ok
            THEN TokRead(Tok(read_string(src[1], TokStart, Ch(src[1], TokStart)).s, TRUE),
                         read_string(src[1], TokStart, Ch(src[1], TokStart)).j)
            ELSE TokRaise("unclosed string literal")
       ELSE IF Ch(src[1], TokStart) = "("
       THEN IF read_paren_group(src[1], TokStart).ok
            THEN TokRead(Tok(read_paren_group(src[1], TokStart).s, FALSE), read_paren_group(src[1], TokStart).j)
            ELSE TokRaise(read_paren_group(src[1], TokStart).why)
       ELSE TokRead(Tok(SubSeq(src[1], TokStart, BareEnd(src[1], TokStart) - 1), FALSE),
                    BareEnd(src[1], TokStart))
    /\ TokFrame

\* one turn of the while loop of _tokenize_with_quotes
TokenizeWithQuotesTurn ==
    /\ mode = "_tokenize_with_quotes"
    /\ phase = "scan"
    /\ IF TokStart > Len(src[1]) THEN TokReturn
       ELSE IF Ch(src[1], TokStart) \in Quotes
       THEN IF read_string(src[1], TokStart, Ch(src[1], TokStart)).ok
            THEN TokRead(Tok(read_string(src[1], TokStart, Ch(src[1], TokStart)).s, TRUE),
                         read_string(src[1], TokStart, Ch(src[1], TokStart)).j)
            ELSE TokRaise("unclosed string literal")
       ELSE TokRead(Tok(SubSeq(src[1], TokStart, WordEnd(src[1], TokStart) - 1), FALSE),
                    WordEnd(src[1], TokStart))
    /\ TokFrame

NextTok ==
    \/ TokenizeLineTurn
    \/ TokenizeWithQuotesTurn

SpecTok == InitTok /\ [][NextTok]_vars

(***************************************************************************)
(* The two expression parsers on their own: one call on one token.  The    *)
(* frame on the stack holds the arguments (token, was_quoted), output what *)
(* the call returned.                                                      *)
(***************************************************************************)
\* unquoted tokens as the tokenizers cut them: numbers, names, texts that
\* are neither
ExprTokens ==
    IntTokens \cup DecimalTokens \cup
    {"x", "_a1", "+5", "1_000", "1e5", "1.5e2", ".5", "1.2.3", "5x", "-", "x+1", "a.b", "x>1",
     "(x + 1)", "(1)", "(\"a\")", "x(1)", "True", "3.x", "--1", "1.", "'", "a\"b",
     "x y", "a'b'"}

InitExpr ==
    /\ mode \in {"parse_expr", "_parse_expr"}
    /\ src = <<>>
    /\ i = 0
    /\ phase = "call"
    /\ vars_ = <<>>
    /\ funcs = <<>>
    /\ ev = NoEv
    /\ in_py_block = FALSE
    /\ program = <<>>
    /\ origin = <<>>
    /\ err = NoErr
    /\ lowered = 0
    /\ indent = 1
    /\ pg_loop_stack = <<>>
    /\ prelude = <<>>
    /\ run_lines = <<>>
    /\ pc = 0
    /\ stack \in {<<Tok(t, q)>> : t \in ExprTokens, q \in BOOLEAN}
    /\ cli = NoCli
    /\ pyenv = InitPy
    /\ output = <<>>
    /\ trace = <<>>

ExprFrame ==
    UNCHANGED <<cli, mode, src, i, in_py_block, program, origin, err, lowered, indent, pg_loop_stack,
                prelude, run_lines, pc, stack, vars_, funcs, pyenv, trace, ev>>

\* parse_expr(token, lineno, was_quoted)
ParseExpr ==
    /\ mode = "parse_expr"
    /\ phase = "call"
    /\ output' = <<parse_expr(stack[1].t, stack[1].q)>>
    /\ phase' = "ended"
    /\ ExprFrame

\* _parse_expr(tok, was_quoted)
EngineParseExpr ==
    /\ mode = "_parse_expr"
    /\ phase = "call"
    /\ output' = <<engine_parse_expr(stack[1].t, stack[1].q)>>
    /\ phase' = "ended"
    /\ ExprFrame

NextExpr ==
    \/ ParseExpr
    \/ EngineParseExpr

SpecExpr == InitExpr /\ [][NextExpr]_vars

(***************************************************************************)
(* __eval_expr on its own, a node at a time: ast.parse, then the loop      *)
(* over ast.walk(tree) one node per step, then env and eval.               *)
(***************************************************************************)
ExprPool ==
    {"__class__", "open('f')", "exec('1')", "x.__class__", "x + 1", "x > 1", "y", "abs(x)",
     "abs(eval)", "math.pi", "e.get()", "max(abs(x), 1)", "max(abs(x), x.__class__)",
     "max(len(e.get()), e.__sizeof__())", "abs(x) + (lambda: 1)()", "1 +",
     "x.append(3)", "max(x.append(3), x.append(4))", "abs", "x", "len", "clamp"}

\* stores the program can have built with let, and with ui entry for e;
\* let x = ([1, 2]) binds a list
Stores ==
    {<<>>,
     [x \in {"x"} |-> ListV(1, "[1, 2]")],
     [x \in {"x"} |-> IntV(5)],
     "x" :> IntV(-2) @@ "__class__" :> IntV(7),
     "x" :> FloatV(15, 1) @@ "open" :> StrV("o") @@ "exec" :> IntV(1),
     "x" :> IntV(3) @@ "e" :> ObjV("entry"),
     "x" :> IntV(-2) @@ "abs" :> IntV(9) @@ "len" :> StrV("n") @@ "clamp" :> IntV(0),
     [x \in {"x"} |-> StrV("a")]}

InitEval ==
    /\ mode = "eval"
    /\ src \in {<<x>> : x \in ExprPool}
    /\ i = 0
    /\ phase = "run"
    /\ vars_ \in Stores
    /\ funcs = <<>>
    /\ ev = [NoEv EXCEPT !.phase = "parse"]
    /\ InitRun

EvalDone(out) == ev' = [ev EXCEPT !.phase = "done", !.out = out]

EvalFrame ==
    UNCHANGED <<cli, mode, src, phase, i, in_py_block, program, origin, err, lowered, indent,
                pg_loop_stack, prelude, run_lines, pc, stack, funcs, pyenv, output, trace>>

\* tree = ast.parse(expr_src, mode='eval')
EvalParse ==
    /\ mode = "eval"
    /\ ev.phase = "parse"
    /\ IF ast_parse(src[1]) = <<>> THEN EvalDone(Fail("SyntaxError", "invalid syntax", <<>>))
       ELSE ev' = [ev EXCEPT !.phase = "walk", !.tree = ast_parse(src[1]), !.todo = ast_parse(src[1])]
    /\ UNCHANGED vars_
    /\ EvalFrame

\* one turn of for node in ast.walk(tree)
EvalVisit ==
    /\ mode = "eval"
    /\ ev.phase = "walk"
    /\ ev.todo # <<>>
    /\ IF node_check(Head(ev.todo)) # ""
       THEN EvalDone(Fail("ValueError", node_check(Head(ev.todo)), <<>>))
       ELSE ev' = [ev EXCEPT !.todo = Tail(ev.todo) \o walk_children(Head(ev.todo)),
                             !.seen = Append(ev.seen, Head(ev.todo))]
    /\ UNCHANGED vars_
    /\ EvalFrame

\* the loop is over: env, and eval of the compiled tree
EvalRun ==
    /\ mode = "eval"
    /\ ev.phase = "walk"
    /\ ev.todo = <<>>
    /\ EvalDone(py_eval(ev.tree[1], vars_, <<>>))
    /\ vars_' = Heap(vars_, py_eval(ev.tree[1], vars_, <<>>).calls)
    /\ EvalFrame

NextEval ==
    \/ EvalParse
    \/ EvalVisit
    \/ EvalRun

SpecEval == InitEval /\ [][NextEval]_vars

(***************************************************************************)
(* engine.py: parse_program, compile_to_python and run_file.               *)
(***************************************************************************)
\* _parse_line without the check of the let form: a let line that is not
\* let <name> = <expr> goes the way of a call
engine_parse_parts_unchecked_let(parts, quoted, lineno) ==
    IF parts[1] = "let" /\ Len(parts) >= 4 /\ parts[3] = "="
    THEN Parsed(St("Let", <<parts[2]>>, <<engine_parse_expr(parts[4], quoted[4])>>, <<>>))
    ELSE Parsed(St("CallStmt", <<parts[1]>>,
                   [j \in 1..(Len(parts) - 1) |-> engine_parse_expr(parts[j + 1], quoted[j + 1])],
                   <<>>))

\* _parse_line, after the tokens are split into texts and flags
engine_parse_parts(parts, quoted, lineno) ==
    IF parts[1] = "let"
    THEN IF Len(parts) < 4 \/ parts[3] # "="
         THEN SyntaxErr("Oh noes! Solar threw an error: Line: expected let <name> = <expr>", lineno)
         ELSE Parsed(St("Let", <<parts[2]>>, <<engine_parse_expr(parts[4], quoted[4])>>, <<>>))
    ELSE IF parts[1] = "print"
    THEN IF Len(parts) < 2
         THEN SyntaxErr("Oh noes! Solar threw an error: Line: expected print <expr...>", lineno)
         ELSE Parsed(St("Print", <<>>,
                        [j \in 1..(Len(parts) - 1) |-> engine_parse_expr(parts[j + 1], quoted[j + 1])],
                        <<>>))
    ELSE IF parts[1] = "ui"
    THEN IF Len(parts) < 2
         THEN SyntaxErr("Oh noes! Solar threw an error: Line: bad ui statement", lineno)
         ELSE Parsed([St("UiStmt", Tail(parts), <<>>, <<>>) EXCEPT !.flags = Tail(Tail(quoted))])
    ELSE Parsed(St("CallStmt", <<parts[1]>>,
                   [j \in 1..(Len(parts) - 1) |-> engine_parse_expr(parts[j + 1], quoted[j + 1])],
                   <<>>))

engine_parse_tokens(parts_q, lineno) ==
    IF ~parts_q.ok THEN SyntaxErr("Oh noes! Solar threw an error: " \o parts_q.why, 0)
    ELSE IF parts_q.toks = <<>> THEN SyntaxErr("empty", 0)
    ELSE engine_parse_parts(Texts(parts_q.toks), Flags(parts_q.toks), lineno)

\* engine.py, _parse_line
engine_parse_line(line, lineno) == engine_parse_tokens(tokenize_with_quotes(line), lineno)

\* the two line parsers on one line: SpecLine
\* _parse_line(line, lineno), with lineno = i + 1
EngineParseLine ==
    /\ mode = "_parse_line"
    /\ phase = "parse"
    /\ LineResult(engine_parse_line(src[1], i + 1))
    /\ UNCHANGED <<cli, mode, src, i, in_py_block, origin, lowered, indent, pg_loop_stack, prelude,
                   run_lines, pc, stack, vars_, funcs, pyenv, output, trace, ev>>

NextLine ==
    \/ ParseSolarLine
    \/ EngineParseLine

SpecLine == InitLine /\ [][NextLine]_vars

\* s.split(c)
RECURSIVE Split(_, _)
Split(s, c) ==
    IF ~Contains(s, c) THEN <<s>>
    ELSE <<BeforeChar(s, c)>> \o Split(SubSeq(s, Len(BeforeChar(s, c)) + 2, Len(s)), c)

\* [a.strip() for a in arg_str.split(",") if a.strip()]
def_args(arg_str) ==
    SelectSeq([j \in 1..Len(Split(arg_str, ",")) |-> Strip(Split(arg_str, ",")[j])],
              LAMBDA a : a # "")

\* the name and the parameters in the header of a solar_def, the colon
\* taken off
def_names(rest) ==
    IF Contains(rest, "(") /\ EndsWith(rest, ")")
    THEN [ok |-> TRUE, name |-> Strip(BeforeChar(rest, "(")),
          args |-> def_args(SubSeq(rest, Len(BeforeChar(rest, "(")) + 2, Len(rest) - 1))]
    ELSE [ok |-> TRUE, name |-> Strip(rest), args |-> <<>>]

def_rest(rest) ==
    IF ~EndsWith(rest, ":") THEN [ok |-> FALSE, name |-> "", args |-> <<>>]
    ELSE def_names(Strip(SubSeq(rest, 1, Len(rest) - 1)))

def_header(line) == def_rest(Strip(SubSeq(line, Len("solar_def") + 1, Len(line))))

\* the inner loop of parse_program: the body of a solar_def from line j
\* on, up to `end` or the last line; i is the number of lines consumed
RECURSIVE def_body(_, _, _)
RECURSIVE body_add(_, _, _, _)
body_add(lines, j, body, r) ==
    IF r.ok THEN def_body(lines, j + 1, Append(body, r.st))
    ELSE [err |-> r.err, body |-> body, i |-> j]

def_body(lines, j, body) ==
    IF j > Len(lines) THEN [err |-> NoErr, body |-> body, i |-> Len(lines)]
    ELSE IF Strip(lines[j]) = "" \/ StartsWith(Strip(lines[j]), "#") THEN def_body(lines, j + 1, body)
    ELSE IF Strip(lines[j]) = "end" THEN [err |-> NoErr, body |-> body, i |-> j]
    ELSE body_add(lines, j, body, engine_parse_line(Strip(lines[j]), j))

\* what a pass of parse_program's outer loop yields: the statements to
\* append, the lines consumed so far, the exception raised
PPass(stmts, n, e) == [stmts |-> stmts, i |-> n, err |-> e]

\* def_pass that keeps of the body its first statement only
def_pass_first(h, b) ==
    IF b.err # NoErr THEN PPass(<<>>, b.i, b.err)
    ELSE PPass(<<St("SolarDef", <<h.name>> \o h.args, <<>>, SubSeq(b.body, 1, 1))>>, b.i, NoErr)

def_pass(h, b) ==
    IF b.err # NoErr THEN PPass(<<>>, b.i, b.err)
    ELSE PPass(<<St("SolarDef", <<h.name>> \o h.args, <<>>, b.body)>>, b.i, NoErr)

solar_def_pass(lines, n, h) ==
    IF ~h.ok
    THEN PPass(<<>>, n, Exc("SyntaxError", "Oh noes! Solar threw an error: solar_def must end with ':'", 0))
    ELSE def_pass(h, def_body(lines, n + 1, <<>>))

line_pass(n, r) == IF r.ok THEN PPass(<<r.st>>, n, NoErr) ELSE PPass(<<>>, n, r.err)

stripped_pass(lines, n, line) ==
    IF line = "" \/ StartsWith(line, "#") THEN PPass(<<>>, n, NoErr)
    ELSE IF StartsWith(line, "solar_def") THEN solar_def_pass(lines, n, def_header(line))
    ELSE line_pass(n, engine_parse_line(line, n))

\* one pass of the outer loop of parse_program, n lines consumed before it
parse_program_pass(lines, n) == stripped_pass(lines, n + 1, Strip(lines[n + 1]))

\* engine.py, _emit_expr
emit_expr(e) ==
    IF e.k = "Num" THEN PyRepr(e.v)
    ELSE IF e.k = "String" THEN PyReprStr(e.s)
    ELSE "vars_.get(" \o PyReprStr(e.s) \o ")"

emit_exprs(exprs) == [j \in 1..Len(exprs) |-> emit_expr(exprs[j])]

\* _emit_stmt for the statements that are not a SolarDef
emit_simple(st, ind) ==
    CASE st.k = "Let" ->
            <<Ln(ind, "assign", FALSE, <<PyReprStr(st.names[1])>>, <<emit_expr(st.exprs[1])>>)>>
      [] st.k = "Print" -> <<Ln(ind, "print", FALSE, <<>>, emit_exprs(st.exprs))>>
      [] st.k = "CallStmt" ->
            << Ln(ind, "fn_get", FALSE, <<PyReprStr(st.names[1])>>, <<>>),
               Ln(ind, "fn_chk", FALSE, <<st.names[1]>>, <<>>),
               Ln(ind, "fn_call", FALSE, <<>>, emit_exprs(st.exprs)) >>
      [] st.k = "UiStmt" ->
            <<Ln(ind, "ui", FALSE, <<PyReprStr(st.names[1])>>,
                 [j \in 1..(Len(st.names) - 1) |-> PyReprStr(st.names[j + 1])])>>

RECURSIVE emit_body(_, _)
emit_body(body, ind) ==
    IF body = <<>> THEN <<>> ELSE emit_simple(Head(body), ind) \o emit_body(Tail(body), ind)

\* engine.py, _emit_stmt
emit_stmt(st, ind) ==
    IF st.k = "SolarDef"
    THEN <<Ln(ind, "def", FALSE, <<st.names[1]>>, Tail(st.names))>>
         \o (IF st.sub = <<>> THEN <<Ln(ind + 1, "pass", FALSE, <<>>, <<>>)>>
             ELSE emit_body(st.sub, ind + 1))
         \o <<Ln(ind, "reg", FALSE, <<PyReprStr(st.names[1]), st.names[1]>>, <<>>)>>
    ELSE emit_simple(st, ind)

\* ast.parse(py_src, mode="exec") accepts the module: the def lines and
\* the message of the unknown-function check are the only places where a
\* token of the source is written outside a repr
engine_line_ok(ln) ==
    /\ ln.op = "def" => /\ IsIdentifier(ln.names[1]) /\ ln.names[1] \notin PyKeywords
                        /\ \A j \in 1..Len(ln.args) :
                              /\ IsIdentifier(ln.args[j]) /\ ln.args[j] \notin PyKeywords
                              /\ \A h \in 1..(j - 1) : ln.args[h] # ln.args[j]
    /\ ln.op = "fn_chk" => ~Contains(ln.names[1], "'") /\ ~Contains(ln.names[1], "\\")

engine_module_ok(lines) == \A j \in 1..Len(lines) : engine_line_ok(lines[j])

\* a generated def as a value: n is the position of its def line
UserFn(d, name) == Val("function", d, 0, name)

\* a registry without built-ins
empty_funcs == <<>>

\* run_file: the registry when the caller passes none
engine_funcs == "print" :> FuncV("print_many") @@ "print_many" :> FuncV("print_many")

\* print_many: an item with a get method is printed as what get returns
print_many(items) ==
    [j \in 1..Len(items) |-> IF items[j].t = "object" THEN StrV("") ELSE items[j]]

\* float(text) succeeds
IsFloatArg(t) == IsIntText(Strip(t)) \/ IsFloatText(Strip(t))

\* the x and y after `at`: the exception they raise, "" when none
at_xy(args) ==
    IF ~In(args, "at") THEN ""
    ELSE IF IndexOf(args, "at") + 2 > Len(args) THEN "IndexError"
    ELSE IF ~IsFloatArg(args[IndexOf(args, "at") + 1]) \/ ~IsFloatArg(args[IndexOf(args, "at") + 2])
    THEN "ValueError"
    ELSE ""

\* the function a button names after `do`, and the tokens after it
button_cb(args) ==
    IF In(args, "do") /\ IndexOf(args, "do") < Len(args)
    THEN [fn |-> <<args[IndexOf(args, "do") + 1]>>, args |-> SubSeq(args, IndexOf(args, "do") + 2, Len(args))]
    ELSE [fn |-> <<>>, args |-> <<>>]

\* the window a sub-command of __ui looks up, and the tokens it reads
ui_needs(cmd) ==
    CASE cmd \in {"window", "run"} -> 1
      [] cmd \in {"title", "bg", "fg", "entry", "text"} -> 2
      [] cmd \in {"size", "label", "checkbox", "button"} -> 3
      [] OTHER -> 0

ui_commands ==
    {"window", "title", "size", "bg", "fg", "label", "entry", "checkbox", "button", "text", "run"}

\* the exception a call of __ui raises, "" when it returns
ui_error(cmd, args, env) ==
    IF cmd \notin ui_commands THEN "NameError"
    ELSE IF Len(args) < ui_needs(cmd) THEN "IndexError"
    ELSE IF cmd \in {"title", "run"} /\ args[1] \notin env.wins \cup env.dead THEN "KeyError"
    ELSE IF cmd \in {"title", "run"} /\ args[1] \in env.dead THEN "TclError"
    ELSE IF cmd = "size" /\ args[1] \notin env.wins \cup env.dead THEN "KeyError"
    ELSE IF cmd = "size" /\ (~IsFloatArg(args[2]) \/ ~IsFloatArg(args[3])) THEN "ValueError"
    ELSE IF cmd = "size" /\ args[1] \in env.dead THEN "TclError"
    ELSE IF cmd \in {"label", "entry", "checkbox", "button"} /\ at_xy(args) # "" THEN at_xy(args)
    ELSE IF cmd \in {"entry", "checkbox"} /\ env.wins = {} THEN "RuntimeError"
    ELSE IF cmd \in {"label", "entry", "checkbox", "button"} /\ args[1] \notin env.wins \cup env.dead
    THEN "KeyError"
    ELSE IF cmd \in {"label", "entry", "checkbox", "button"} /\ args[1] \in env.dead THEN "TclError"
    ELSE IF cmd = "text" /\ args[1] \notin env.widgets THEN "NameError"
    ELSE ""

\* what a call of __ui that returns leaves in the host's state
ui_env(cmd, args, env) ==
    CASE cmd = "window" -> [env EXCEPT !.wins = @ \cup {args[1]}, !.dead = @ \ {args[1]}]
      [] cmd \in {"label", "entry", "checkbox"} -> [env EXCEPT !.widgets = @ \cup {args[2]}]
      [] cmd = "button" ->
            [env EXCEPT !.widgets = @ \cup {args[2]}, !.buttons = Append(@, button_cb(args))]
      [] cmd = "run" -> [env EXCEPT !.loop = TRUE]
      [] OTHER -> env

\* and in the store
ui_store(cmd, args, store) ==
    CASE cmd = "fg" -> Put(store, "__ui_fg_" \o args[1], StrV(args[2]))
      [] cmd = "entry" -> Put(store, args[2], ObjV("StringVar"))
      [] cmd = "checkbox" -> Put(store, args[2], ObjV("IntVar"))
      [] OTHER -> store

(***************************************************************************)
(* Runs of the engine: parse_program a pass at a time, _emit_stmt a        *)
(* statement at a time, then __run a generated line at a time; while       *)
(* mainloop runs, the buttons can be clicked and the windows closed.       *)
(***************************************************************************)
\* fragments of programs: definitions, calls, a window with two buttons
EnginePool ==
    { <<"solar_def f:", "let x = 1", "end">>,
      <<"f">>,
      <<"solar_def g(a):", "  f", "  print a \"g\"", "end">>,
      <<"g 7">>,
      <<"g">>,
      <<"ui window w", "ui button w b \"B\" at 1 2 do f", "ui button w c C at 1 2 do g x", "ui run w">>,
      <<"print_many">>,
      <<"solar_def r:", "let y = x", "r", "end", "r">>,
      <<"solar_def print_many():", "# built-in, defined again", "", "end">>,
      <<"let x">>,
      <<"ui title w \"5\"">>,
      <<"ui title w 5">>,
      <<"let x = 2.50">>,
      <<"print x 'a'">> }

RECURSIVE Flatten(_)
Flatten(chunks) == IF chunks = <<>> THEN <<>> ELSE Head(chunks) \o Flatten(Tail(chunks))

EnginePrograms == {Flatten(c) : c \in UNION {[1..n -> EnginePool] : n \in 1..MaxChunks}}

InitEngine ==
    /\ mode = "engine"
    /\ src \in EnginePrograms
    /\ i = 0
    /\ phase = "parse"
    /\ vars_ = <<>>
    /\ funcs = <<>>
    /\ ev = NoEv
    /\ InitRun

\* what a pass of parse_program's loop does to the parser's state
EnginePass(r) ==
    /\ program' = program \o r.stmts
    /\ origin' = origin \o [j \in 1..Len(r.stmts) |-> i + 1]
    /\ i' = r.i
    /\ err' = r.err
    /\ phase' = IF r.err # NoErr THEN "ended" ELSE IF r.i < Len(src) THEN "parse" ELSE "lower"

\* one pass of the outer loop of parse_program
ParseProgramPass ==
    /\ mode = "engine"
    /\ phase = "parse"
    /\ i < Len(src)
    /\ EnginePass(parse_program_pass(src, i))
    /\ UNCHANGED <<cli, mode, src, in_py_block, lowered, indent, pg_loop_stack, prelude, run_lines,
                   pc, stack, vars_, funcs, pyenv, output, trace, ev>>

\* one pass of compile_to_python's loop over the program
EmitStmt ==
    /\ mode = "engine"
    /\ phase = "lower"
    /\ lowered < Len(program)
    /\ run_lines' = run_lines \o Stamp(emit_stmt(program[lowered + 1], 1), lowered + 1)
    /\ lowered' = lowered + 1
    /\ UNCHANGED <<cli, mode, src, phase, i, in_py_block, program, origin, err, indent,
                   pg_loop_stack, prelude, pc, stack, vars_, funcs, pyenv, output, trace, ev>>

\* run_file after compile_to_python: ast.parse of the module, exec of its
\* def, the registry of built-ins, and the call of __run
EngineLoad ==
    /\ mode = "engine"
    /\ phase = "lower"
    /\ lowered = Len(program)
    /\ IF engine_module_ok(run_lines)
       THEN phase' = "run" /\ err' = err /\ pc' = 1 /\ funcs' = engine_funcs
       ELSE phase' = "ended" /\ err' = Exc("SyntaxError", "invalid syntax", 0) /\ pc' = pc /\ funcs' = funcs
    /\ UNCHANGED <<cli, mode, src, i, in_py_block, program, origin, lowered, indent, pg_loop_stack,
                   prelude, run_lines, stack, vars_, pyenv, output, trace, ev>>

\* the registration line that closes the def at line d
RECURSIVE RegOf(_)
RegOf(d) == IF run_lines[d + 1].op = "reg" /\ run_lines[d + 1].ind = 1 THEN d + 1 ELSE RegOf(d + 1)

\* the def line that the registration line r closes
RECURSIVE DefOf(_)
DefOf(r) == IF run_lines[r - 1].op = "def" THEN r - 1 ELSE DefOf(r - 1)

\* the frame of a call: where it returns to, where the body ends, and
\* whether Tk made the call for a click
Frame(ret, end, cb) == [ret |-> ret, end |-> end, cb |-> cb]

AtBodyEnd == stack # <<>> /\ pc = Head(stack).end

InCallback == stack # <<>> /\ stack[Len(stack)].cb

EngineRunning(ops) ==
    /\ mode = "engine"
    /\ phase = "run"
    /\ ~pyenv.loop \/ InCallback
    /\ pc <= Len(run_lines)
    /\ ~AtBodyEnd
    /\ Line.op \in ops

\* the line completed: on to line j
EngineGoto(j, env, stk) ==
    /\ phase' = phase
    /\ err' = err
    /\ pc' = j
    /\ pyenv' = env
    /\ stack' = stk

\* the line raised e: under a callback Tk reports the exception and
\* mainloop goes on, otherwise e leaves __run and run_file
EngineRaise(e, env) ==
    IF InCallback
    THEN /\ phase' = phase
         /\ err' = err
         /\ pc' = stack[Len(stack)].ret
         /\ stack' = <<>>
         /\ pyenv' = [env EXCEPT !.reported = Append(@, e)]
    ELSE /\ phase' = "ended"
         /\ err' = e
         /\ pc' = pc
         /\ stack' = stack
         /\ pyenv' = env

\* the assignment with a store of its own for every call: a binding made
\* in a body is dropped
EngineAssignLocal ==
    /\ EngineRunning({"assign"})
    /\ Traced(TRUE)
    /\ vars_' = IF stack = <<>>
                THEN Put(vars_, PyStrLit(Line.names[1]).s, py_eval_text(Line.args[1], vars_).v)
                ELSE vars_
    /\ EngineGoto(pc + 1, pyenv, stack)
    /\ UNCHANGED <<cli, mode, src, i, in_py_block, program, origin, lowered, indent, pg_loop_stack,
                   prelude, run_lines, funcs, output, ev>>

\* vars_[name] = expr
EngineAssign ==
    /\ EngineRunning({"assign"})
    /\ Traced(TRUE)
    /\ vars_' = Put(vars_, PyStrLit(Line.names[1]).s, py_eval_text(Line.args[1], vars_).v)
    /\ EngineGoto(pc + 1, pyenv, stack)
    /\ UNCHANGED <<cli, mode, src, i, in_py_block, program, origin, lowered, indent, pg_loop_stack,
                   prelude, run_lines, funcs, output, ev>>

\* the store with the parameters of the running body bound to what the
\* call line passes
BoundParams(store, params, texts) ==
    [n \in DOMAIN store \cup {params[j] : j \in 1..Len(params)} |->
        IF \E j \in 1..Len(params) : params[j] = n
        THEN py_eval_text(texts[CHOOSE j \in 1..Len(params) : params[j] = n], store).v
        ELSE store[n]]

\* print in a body where a parameter hides the store's variable
EnginePrintParam ==
    /\ EngineRunning({"print"})
    /\ Traced(TRUE)
    /\ output' = Append(output,
                        py_eval_texts(Line.args,
                                      IF stack # <<>> /\ ~Head(stack).cb
                                      THEN BoundParams(vars_, run_lines[DefOf(Head(stack).end)].args,
                                                 run_lines[Head(stack).ret - 1].args)
                                      ELSE vars_, <<>>).vs)
    /\ EngineGoto(pc + 1, pyenv, stack)
    /\ UNCHANGED <<cli, mode, src, i, in_py_block, program, origin, lowered, indent, pg_loop_stack,
                   prelude, run_lines, vars_, funcs, ev>>

\* print(expr, ...)
EnginePrint ==
    /\ EngineRunning({"print"})
    /\ Traced(TRUE)
    /\ output' = Append(output, py_eval_texts(Line.args, vars_, <<>>).vs)
    /\ EngineGoto(pc + 1, pyenv, stack)
    /\ UNCHANGED <<cli, mode, src, i, in_py_block, program, origin, lowered, indent, pg_loop_stack,
                   prelude, run_lines, vars_, funcs, ev>>

\* the frames the host allows before it raises RecursionError
MaxDepth == 3

\* what calling the value f with the values args does from line at, to
\* return to line ret
Invoke(f, args, ret, cb, env) ==
    IF f.n = 0
    THEN /\ output' = Append(output, print_many(args))
         /\ EngineGoto(ret, env, stack)
    ELSE IF Len(run_lines[f.n].args) # Len(args)
    THEN /\ output' = output
         /\ EngineRaise(Exc("TypeError", f.s \o "() takes another number of arguments", 0), env)
    ELSE IF Len(stack) >= MaxDepth
    THEN /\ output' = output
         /\ EngineRaise(Exc("RecursionError", "maximum recursion depth exceeded", 0), env)
    ELSE /\ output' = output
         /\ EngineGoto(f.n + 1, env, <<Frame(ret, RegOf(f.n), cb)>> \o stack)

\* the three lines of a call statement
EngineCall ==
    /\ EngineRunning({"fn_get", "fn_chk", "fn_call"})
    /\ \/ /\ Line.op = "fn_get"
          /\ Traced(TRUE)
          /\ EngineGoto(pc + 1, [pyenv EXCEPT !.fn = Get(funcs, PyStrLit(Line.names[1]).s)], stack)
          /\ output' = output
       \/ /\ Line.op = "fn_chk"
          /\ Traced(pyenv.fn # NoFn)
          /\ IF pyenv.fn = NoFn
             THEN EngineRaise(Exc("NameError", "Oh noes! Solar threw an error: Unknown function: "
                                               \o Line.names[1], 0), pyenv)
             ELSE EngineGoto(pc + 1, pyenv, stack)
          /\ output' = output
       \/ /\ Line.op = "fn_call"
          /\ Traced(TRUE)
          /\ Invoke(pyenv.fn, py_eval_texts(Line.args, vars_, <<>>).vs, pc + 1, FALSE, pyenv)
    /\ UNCHANGED <<cli, mode, src, i, in_py_block, program, origin, lowered, indent, pg_loop_stack,
                   prelude, run_lines, vars_, funcs, ev>>

\* def name(args): binds the name; funcs[name] = name registers it
EngineDef ==
    /\ EngineRunning({"def", "reg"})
    /\ Traced(TRUE)
    /\ IF Line.op = "def"
       THEN /\ EngineGoto(RegOf(pc), [pyenv EXCEPT !.defs = @ \cup {Line.names[1]}], stack)
            /\ funcs' = funcs
       ELSE /\ EngineGoto(pc + 1, pyenv, stack)
            /\ funcs' = Put(funcs, PyStrLit(Line.names[1]).s, UserFn(DefOf(pc), Line.names[2]))
    /\ UNCHANGED <<cli, mode, src, i, in_py_block, program, origin, lowered, indent, pg_loop_stack,
                   prelude, run_lines, vars_, output, ev>>

\* pass: the body of a solar_def without statements
EnginePassLine ==
    /\ EngineRunning({"pass"})
    /\ Traced(TRUE)
    /\ EngineGoto(pc + 1, pyenv, stack)
    /\ UNCHANGED <<cli, mode, src, i, in_py_block, program, origin, lowered, indent, pg_loop_stack,
                   prelude, run_lines, vars_, funcs, output, ev>>

UiArgs(ln) == [j \in 1..Len(ln.args) |-> PyStrLit(ln.args[j]).s]

\* __ui(cmd, args...)
EngineUi ==
    /\ EngineRunning({"ui"})
    /\ LET cmd == PyStrLit(Line.names[1]).s
           e == ui_error(cmd, UiArgs(Line), pyenv)
       IN  /\ Traced(e = "")
           /\ IF e # ""
              THEN vars_' = vars_ /\ EngineRaise(Exc(e, cmd, 0), pyenv)
              ELSE /\ vars_' = ui_store(cmd, UiArgs(Line), vars_)
                   /\ EngineGoto(IF cmd = "run" THEN pc ELSE pc + 1, ui_env(cmd, UiArgs(Line), pyenv), stack)
    /\ UNCHANGED <<cli, mode, src, i, in_py_block, program, origin, lowered, indent, pg_loop_stack,
                   prelude, run_lines, funcs, output, ev>>

\* the end of a body: the call returns; the end of __run: the run is over
EngineReturn ==
    /\ mode = "engine"
    /\ phase = "run"
    /\ IF AtBodyEnd
       THEN EngineGoto(Head(stack).ret, pyenv, Tail(stack))
       ELSE /\ pc > Len(run_lines)
            /\ phase' = "ended"
            /\ UNCHANGED <<err, pc, pyenv, stack>>
    /\ UNCHANGED <<cli, mode, src, i, in_py_block, program, origin, lowered, indent, pg_loop_stack,
                   prelude, run_lines, vars_, funcs, output, trace, ev>>

\* vars_.get(a, a) for the tokens after the function's name
CallArgs(raw) == [j \in 1..Len(raw) |-> IF raw[j] \in DOMAIN vars_ THEN vars_[raw[j]] ELSE StrV(raw[j])]

\* a click on a button while mainloop runs: Tk calls its _cb, whose _f is
\* kept where the model keeps _fn; the click is traced as line 0
Click ==
    /\ mode = "engine"
    /\ phase = "run"
    /\ pyenv.loop
    /\ stack = <<>>
    /\ pyenv.clicks < MaxClicks
    /\ \E b \in 1..Len(pyenv.buttons) :
          LET cb == pyenv.buttons[b]
              env == [pyenv EXCEPT !.clicks = @ + 1,
                                   !.fn = IF cb.fn = <<>> THEN NoFn ELSE Get(funcs, cb.fn[1])]
          IN  /\ trace' = Append(trace, [ln |-> 0, t |-> cb.fn # <<>> /\ cb.fn[1] \in DOMAIN funcs,
                                         cb |-> TRUE])
              /\ IF cb.fn = <<>> THEN output' = output /\ EngineGoto(pc, env, stack)
                 ELSE IF cb.fn[1] \notin DOMAIN funcs
                 THEN /\ output' = output
                      /\ EngineGoto(pc, [env EXCEPT !.reported =
                            Append(@, Exc("NameError", "Oh noes! Solar threw an error: Unknown function: "
                                                       \o cb.fn[1], 0))], stack)
                 ELSE IF funcs[cb.fn[1]].n # 0 /\ Len(run_lines[funcs[cb.fn[1]].n].args) # Len(cb.args)
                 THEN /\ output' = output
                      /\ EngineGoto(pc, [env EXCEPT !.reported =
                            Append(@, Exc("TypeError", cb.fn[1] \o "() takes another number of arguments", 0))],
                                    stack)
                 ELSE Invoke(funcs[cb.fn[1]], CallArgs(cb.args), pc, TRUE, env)
    /\ UNCHANGED <<cli, mode, src, i, in_py_block, program, origin, lowered, indent, pg_loop_stack,
                   prelude, run_lines, vars_, funcs, ev>>

\* the windows are closed: they are destroyed and mainloop returns
CloseWindows ==
    /\ mode = "engine"
    /\ phase = "run"
    /\ pyenv.loop
    /\ stack = <<>>
    /\ pyenv' = [pyenv EXCEPT !.loop = FALSE, !.dead = @ \cup pyenv.wins, !.wins = {}, !.buttons = <<>>]
    /\ pc' = pc + 1
    /\ UNCHANGED <<cli, mode, src, phase, i, in_py_block, program, origin, err, lowered, indent,
                   pg_loop_stack, prelude, run_lines, stack, vars_, funcs, output, trace, ev>>

NextEngine ==
    \/ ParseProgramPass
    \/ EmitStmt
    \/ EngineLoad
    \/ EngineAssign
    \/ EnginePrint
    \/ EngineCall
    \/ EngineDef
    \/ EnginePassLine
    \/ EngineUi
    \/ EngineReturn
    \/ Click
    \/ CloseWindows

SpecEngine == InitEngine /\ [][NextEngine]_vars

(***************************************************************************)
(* Definitions with a parameter, called with arguments while the store     *)
(* holds, or does not hold, a variable with the parameter's name.          *)
(***************************************************************************)
\* the statements between the definitions and the window are at most this many
MaxCalls == 3

ParamDefs == <<"solar_def g(a):", "print a", "end", "solar_def s(a):", "let c = a", "end">>

ParamSteps == {"g 7", "let a = 5", "g a", "s 7"}

ParamTail == <<"solar_def e:", "end", "e", "ui window w", "ui button w b B at 1 2 do g a", "ui run w">>

ParamPrograms ==
    {ParamDefs \o c \o ParamTail : c \in UNION {[1..n -> ParamSteps] : n \in 1..MaxCalls}}

InitParam ==
    /\ mode = "engine"
    /\ src \in ParamPrograms
    /\ i = 0
    /\ phase = "parse"
    /\ vars_ = <<>>
    /\ funcs = <<>>
    /\ ev = NoEv
    /\ InitRun

SpecParam == InitParam /\ [][NextEngine]_vars

(***************************************************************************)
(* Lines whose arguments carry the text of a marker keyword, in both       *)
(* front ends: parse_solar_line on one line, and the engine on a program   *)
(* that makes a button and runs the window.                                *)
(***************************************************************************)
MarkerLines ==
    {"if x then print 1", "if \"then\" then print 1", "if x \"then\" print 1 then print 2",
     "ui label w l T at 1 2", "ui label w l \"at\" 1 2", "ui label w l \"at\" at 1 2",
     "ui button w b T at 1 2 do f", "ui button w b \"do\" at 1 2 do f",
     "ui button w b T at 1 2 \"do\" f", "ui button w b \"at\" at 1 2 do f x",
     "ui entry w e \"at\" 1 2", "ui checkbox w c \"at\" at 1 2",
     "ui slider w s from 0 to 9 at 1 2", "ui slider w s \"from\" 0 to 9 at 1 2",
     "ui slider w s from 0 \"to\" 9 at 1 2", "ui slider w \"to\" from 0 to 9 at 1 2",
     "ui bind w k do f", "ui bind w \"do\" do f", "ui bind w k \"do\" f x",
     "let x = 5", "let x \"=\" 5", "let = = 5", "let x y = 5",
     "ui get v into x", "ui get v \"into\" x", "ui get into into x",
     "pg key g K into x", "pg key g K \"into\" x", "pg key g into into x"}

MarkerButtons ==
    {"ui button w b \"B\" at 1 2 do f", "ui button w b \"do\" at 1 2 do f",
     "ui button w b \"at\" at 1 2 do f", "ui button w b B at 1 2 \"do\" f",
     "ui button w b B \"at\" 1 2 do f x", "ui button w b B at 1 2"}

MarkerPrograms ==
    {<<"solar_def f:", "let x = 1", "print x", "end", "solar_def e:", "end", "e", "f",
       "ui window w", b, "ui run w">> : b \in MarkerButtons}

InitMarker ==
    /\ \/ mode = "line" /\ src \in {<<l>> : l \in MarkerLines} /\ funcs = <<>>
       \/ mode = "engine" /\ src \in MarkerPrograms /\ funcs = <<>>
    /\ i = 0
    /\ phase = "parse"
    /\ vars_ = <<>>
    /\ ev = NoEv
    /\ InitRun

NextMarker ==
    \/ ParseSolarLine
    \/ NextEngine

SpecMarker == InitMarker /\ [][NextMarker]_vars

(***************************************************************************)
(* The command line: cli.py, main.  main parses its arguments and          *)
(* dispatches on the command; `run` hands the file to run_file, whose run  *)
(* is the engine's, and `compile` prints what compile_to_python returns.   *)
(***************************************************************************)
\* the arguments main is given are at most this many
MaxArgs == 2

\* the files of the working directory; every other path cannot be read
Files ==
    "a.solar" :> <<"solar_def g(a):", "  f", "  print a \"g\"", "end",
                   "solar_def f:", "let x = 1", "end", "g 7",
                   "ui window w", "ui button w b \"B\" at 1 2 do f",
                   "ui button w c C at 1 2 do g x", "ui run w">>
    @@ "b.solar" :> <<"solar_def print_many():", "# built-in, defined again", "", "end",
                      "print_many", "f">>
    @@ "c.solar" :> <<"let x">>

ArgWords ==
    {"help", "version", "run", "compile", "update", "a.solar", "b.solar", "c.solar", "m.solar", "-h", "fly"}

Commands == {"help", "run", "version", "compile", "update"}

\* what argparse makes of the arguments: exit is the status it exits
\* with, -1 when parse_args returns
Args(exit, cmd, file) == [exit |-> exit, cmd |-> cmd, file |-> file]

parse_args(argv) ==
    IF argv = <<>> THEN Args(-1, "None", "")
    ELSE IF argv[1] = "-h" THEN Args(0, "", "")
    ELSE IF argv[1] \notin Commands THEN Args(2, "", "")
    ELSE IF In(Tail(argv), "-h") THEN Args(0, "", "")
    ELSE IF argv[1] \in {"run", "compile"}
    THEN IF Len(argv) = 2 THEN Args(-1, argv[1], argv[2]) ELSE Args(2, "", "")
    ELSE IF Len(argv) = 1 THEN Args(-1, argv[1], "") ELSE Args(2, "", "")

\* a read that takes a path that is no file for an empty program
read_text_lenient(file) ==
    [ok |-> TRUE, lines |-> IF file \in DOMAIN Files THEN Files[file] ELSE <<"# no such file">>]

\* the text of a file as its lines
read_text(file) ==
    IF file \in DOMAIN Files THEN [ok |-> TRUE, lines |-> Files[file]] ELSE [ok |-> FALSE, lines |-> <<>>]

\* engine.py, parse_program: the passes of its outer loop to the end of
\* the text or to the first error
RECURSIVE parse_program(_, _, _)
parse_program_next(lines, stmts, r) ==
    IF r.err # NoErr THEN PPass(stmts, r.i, r.err) ELSE parse_program(lines, r.i, stmts \o r.stmts)

parse_program(lines, n, stmts) ==
    IF n >= Len(lines) THEN PPass(stmts, n, NoErr)
    ELSE parse_program_next(lines, stmts, parse_program_pass(lines, n))

\* compile_to_python's loop over the program
RECURSIVE emit_program(_, _)
emit_program(stmts, p) ==
    IF p > Len(stmts) THEN <<>> ELSE Stamp(emit_stmt(stmts[p], 1), p) \o emit_program(stmts, p + 1)

\* compile_to_python: the lines after those of the __ui helper
compiled(r) == [err |-> r.err, lines |-> IF r.err = NoErr THEN emit_program(r.stmts, 1) ELSE <<>>]

compile_to_python(lines) == compiled(parse_program(lines, 0, <<>>))

InitCli ==
    /\ mode = "cli"
    /\ src = <<>>
    /\ i = 0
    /\ phase = "args"
    /\ vars_ = <<>>
    /\ funcs = <<>>
    /\ ev = NoEv
    /\ in_py_block = FALSE
    /\ program = <<>>
    /\ origin = <<>>
    /\ err = NoErr
    /\ lowered = 0
    /\ indent = 1
    /\ pg_loop_stack = <<>>
    /\ prelude = <<>>
    /\ run_lines = <<>>
    /\ pc = 0
    /\ stack = <<>>
    /\ pyenv = InitPy
    /\ output = <<>>
    /\ trace = <<>>
    /\ cli \in {[NoCli EXCEPT !.argv = a] : a \in UNION {[1..n -> ArgWords] : n \in 0..MaxArgs}}

\* what main prints: the help, a usage error, the version, or a program
Printed(what, lines) == [what |-> what, lines |-> lines]

\* main ends: with the status code, having printed what
CliEnd(code, what, e) ==
    /\ cli' = [cli EXCEPT !.code = code, !.printed = cli.printed \o what]
    /\ phase' = "ended"
    /\ err' = e

CliFrame ==
    UNCHANGED <<mode, src, i, in_py_block, program, origin, lowered, indent, pg_loop_stack,
                prelude, run_lines, pc, stack, vars_, funcs, pyenv, output, trace, ev>>

\* ap.parse_args(argv): it returns the command and its file, or prints
\* the help or a usage error and exits
CliParseArgs ==
    /\ mode = "cli"
    /\ phase = "args"
    /\ IF parse_args(cli.argv).exit = -1
       THEN /\ cli' = [cli EXCEPT !.cmd = parse_args(cli.argv).cmd, !.file = parse_args(cli.argv).file]
            /\ phase' = "dispatch"
            /\ err' = err
       ELSE CliEnd(parse_args(cli.argv).exit,
                   <<Printed(IF parse_args(cli.argv).exit = 0 THEN "help" ELSE "usage", <<>>)>>, NoErr)
    /\ CliFrame

\* no command, or help: print_help and return 0
CliHelp ==
    /\ mode = "cli"
    /\ phase = "dispatch"
    /\ cli.cmd \in {"None", "help"}
    /\ CliEnd(0, <<Printed("help", <<>>)>>, NoErr)
    /\ CliFrame

\* version: print SOLAR_VERSION and return 0
CliVersion ==
    /\ mode = "cli"
    /\ phase = "dispatch"
    /\ cli.cmd = "version"
    /\ CliEnd(0, <<Printed("version", <<>>)>>, NoErr)
    /\ CliFrame

\* run: run_file reads the file and the engine takes its text; a file
\* that cannot be read raises out of main
CliRun ==
    /\ mode = "cli"
    /\ phase = "dispatch"
    /\ cli.cmd = "run"
    /\ IF read_text(cli.file).ok
       THEN /\ mode' = "engine"
            /\ src' = read_text(cli.file).lines
            /\ phase' = "parse"
            /\ UNCHANGED <<cli, err>>
       ELSE /\ CliEnd(1, <<>>, Exc("FileNotFoundError", cli.file, 0))
            /\ UNCHANGED <<mode, src>>
    /\ UNCHANGED <<i, in_py_block, program, origin, lowered, indent, pg_loop_stack,
                   prelude, run_lines, pc, stack, vars_, funcs, pyenv, output, trace, ev>>

\* run_file is over: main returns 0 when it returned, and the exception
\* it raised leaves main otherwise
CliRunEnd ==
    /\ mode = "engine"
    /\ phase = "ended"
    /\ cli.cmd = "run"
    /\ cli.code = -1
    /\ cli' = [cli EXCEPT !.code = IF err = NoErr THEN 0 ELSE 1]
    /\ UNCHANGED <<mode, src, phase, i, in_py_block, program, origin, err, lowered, indent,
                   pg_loop_stack, prelude, run_lines, pc, stack, vars_, funcs, pyenv,
                   output, trace, ev>>

\* compile: read the file, print compile_to_python of its text, return 0
CliCompile ==
    /\ mode = "cli"
    /\ phase = "dispatch"
    /\ cli.cmd = "compile"
    /\ IF ~read_text(cli.file).ok
       THEN CliEnd(1, <<>>, Exc("FileNotFoundError", cli.file, 0))
       ELSE IF compile_to_python(read_text(cli.file).lines).err # NoErr
       THEN CliEnd(1, <<>>, compile_to_python(read_text(cli.file).lines).err)
       ELSE CliEnd(0, <<Printed("program", compile_to_python(read_text(cli.file).lines).lines)>>, NoErr)
    /\ CliFrame

\* update: the status pip exits with, 1 when pip is not found
CliUpdate ==
    /\ mode = "cli"
    /\ phase = "dispatch"
    /\ cli.cmd = "update"
    /\ \E code \in {0, 1} : CliEnd(code, <<>>, NoErr)
    /\ CliFrame

NextCli ==
    \/ CliParseArgs
    \/ CliHelp
    \/ CliVersion
    \/ CliRun
    \/ CliRunEnd
    \/ CliCompile
    \/ CliUpdate
    \/ NextEngine

SpecCli == InitCli /\ [][NextCli]_vars

(***************************************************************************)
(* Both front ends side by side.                                           *)
(***************************************************************************)
Init == InitInterp \/ InitEngine

Next == NextInterp \/ NextEngine

Spec == Init /\ [][Next]_vars

(***************************************************************************)
(* Properties of the interpreter.py pipeline (SpecInterp).                 *)
(***************************************************************************)
\* the statement whose line ran last
JustRan(p) == trace # <<>> /\ run_lines[trace[Len(trace)].ln].of = p

\* the name and the literal token of a binding line of LetLines
LetName(line) == SubSeq(BeforeChar(line, "="), 5, Len(BeforeChar(line, "=")) - 1)

LetToken(line) == SubSeq(line, Len(BeforeChar(line, "=")) + 3, Len(line))

\* the value each literal token of the pool denotes
LiteralValue(t) ==
    CASE t = "5" -> IntV(5)
      [] t = "-3" -> IntV(-3)
      [] t = "007" -> IntV(7)
      [] t = "1.5" -> Val("float", 15, 1, "")
      [] t = "2." -> Val("float", 2, 0, "")
      [] t = "\"a b\"" -> StrV("a b")
      [] t = "'42'" -> StrV("42")
      [] t = "'it\\'s'" -> StrV("it's")

Bound(line) ==
    /\ LetName(line) \in DOMAIN vars_
    /\ vars_[LetName(line)] = LiteralValue(LetToken(line))

\* C1: a line let <name> = <literal> with an integer, decimal or quoted
\* literal binds exactly that literal: store[name] holds it when the line's
\* lowered assignment has just run, and when a run whose last line is such
\* a binding has ended.
C1_LiteralBindingStored ==
    /\ \A p \in 1..Len(program) :
          src[origin[p]] \in LetLines /\ JustRan(p) => Bound(src[origin[p]])
    /\ phase = "ended" /\ err = NoErr /\ src[Len(src)] \in LetLines => Bound(src[Len(src)])

C1_Witness ==
    /\ phase = "ended"
    /\ err = NoErr
    /\ src[Len(src)] = "let x = 'it\\'s'"
    /\ Len(src) = 2
    /\ src[1] = "let x = 1.5"
    /\ JustRan(2)
    /\ vars_["x"] = StrV("it's")

\* the texts of the quoted tokens of a line, in order
QuotedTexts(line) == Texts(SelectSeq(tokenize_line(Strip(line)).toks, LAMBDA t : t.q))

\* the texts of the String expressions of a statement, in order: its own,
\* then those of the statement nested in it
RECURSIVE StringTexts(_)
StringTexts(st) ==
    [j \in 1..Len(SelectSeq(st.exprs, LAMBDA e : e.k = "String")) |->
        SelectSeq(st.exprs, LAMBDA e : e.k = "String")[j].s]
    \o (IF st.sub = <<>> THEN <<>> ELSE StringTexts(st.sub[1]))

IsStrLit(text) == Len(text) > 0 /\ Ch(text, 1) \in Quotes

\* the string literals among the expression texts of a generated line
LineStrings(ln) ==
    [j \in 1..Len(SelectSeq(ln.args, IsStrLit)) |-> PyStrLit(SelectSeq(ln.args, IsStrLit)[j]).s]

\* the string literals of the lines lowered from statement p, in order
RECURSIVE LoweredStrings(_, _)
LoweredStrings(p, j) ==
    IF j > Len(run_lines) THEN <<>>
    ELSE (IF run_lines[j].of = p THEN LineStrings(run_lines[j]) ELSE <<>>) \o LoweredStrings(p, j + 1)

\* C2: in every statement form, a token that was quote-delimited in the
\* source line is a String literal in the parsed statement and a string
\* literal in the lowered program, never a number, a variable reference or
\* a raw expression.
C2_QuotedStaysString ==
    \A p \in 1..Len(program) :
        program[p].k \notin {"PyRaw", "ContainImport"}
        => /\ StringTexts(program[p]) = QuotedTexts(src[origin[p]])
           /\ p <= lowered => LoweredStrings(p, 1) = QuotedTexts(src[origin[p]])

\* the ops of the lines that carry a statement's effect
EffectOps == {"assign", "print", "fn_call"} \cup UiPgOps

\* how often the if line h found its condition truthy, and how often the
\* effect of its body ran
TruthyRuns(h) == Cardinality({n \in 1..Len(trace) : trace[n].ln = h /\ trace[n].t})

BodyRuns(h) ==
    Cardinality({n \in 1..Len(trace) :
                    /\ trace[n].ln > h
                    /\ run_lines[trace[n].ln].of = run_lines[h].of
                    /\ run_lines[trace[n].ln].op \in EffectOps})

\* C3: in a run that ended without an exception, the effect of the body of
\* every accepted if ... then ... ran once for each time the condition was
\* truthy, and not when it was falsy.
C3_BodyRunsWhenTruthy ==
    phase = "ended" /\ err = NoErr
    => \A h \in 1..Len(run_lines) : run_lines[h].op = "if" => BodyRuns(h) = TruthyRuns(h)

\* C8: the failure of parse_solar_line on a line does not leave
\* parse_prog: the pass over the line appends one passthrough statement
\* holding the line and the loop goes on.
C8_ParseFailureContained ==
    \A j \in 1..Len(src) :
        src[j] \in BadLines
        => /\ ~(phase = "ended" /\ i = j - 1 /\ lowered = 0 /\ err # NoErr)
           /\ i >= j => \E p \in 1..Len(program) :
                            /\ origin[p] = j
                            /\ program[p] = PyRaw(src[j])
                            /\ \A q \in 1..Len(program) : origin[q] = j => q = p

(***************************************************************************)
(* Properties of parse_solar_line (SpecLine).                              *)
(***************************************************************************)
\* a line with fewer tokens than the complete form, or without a marker
Incomplete(line) ==
    line \in {JoinFrom(t, 1) : t \in UNION {(Prefixes(f) \ {f}) \cup Unmarked(f) : f \in Forms}}

\* C9: a ui or pg line with fewer tokens than its sub-command reads, or
\* without one of its marker keywords, makes parse_solar_line raise the
\* SyntaxError whose message carries the line number; nothing else is
\* raised and no statement is returned.
C9_IncompleteLineIsSyntaxError ==
    mode = "line" /\ phase = "ended" /\ Incomplete(src[1])
    => err.type = "SyntaxError" /\ err.line = i + 1 /\ program = <<>>

(***************************************************************************)
(* Properties of __eval_expr (SpecEval).                                   *)
(***************************************************************************)
\* C4: whatever the store holds, the expressions __class__, open('f') and
\* exec('1') end in the ValueError "Solar expr blocked: ..." and yield no
\* value.
C4_DangerousExpressionsBlocked ==
    ev.phase = "done" /\ src[1] \in {"__class__", "open('f')", "exec('1')"}
    => /\ ~ev.out.ok
       /\ ev.out.err.type = "ValueError"
       /\ StartsWith(ev.out.err.msg, "Solar expr blocked")

\* every node of a tree
RECURSIVE NodesOf(_)
NodesOf(n) == {n} \cup UNION {NodesOf(n.kids[j]) : j \in 1..Len(n.kids)}

\* a node of a kind outside the allow-list, or a dunder attribute access
Blocked(n) == n.kind \notin allowed \/ (n.kind = "Attribute" /\ StartsWith(n.id, "__"))

Visited == {ev.seen[j] : j \in 1..Len(ev.seen)}

\* C10: every node is checked before anything is evaluated.  When eval
\* has run, the walk has visited every node of the tree; and a tree with a
\* node, at any depth, of a kind outside the allow-list or with a dunder
\* attribute access ends in the ValueError of the walk with no callable of
\* the safe set or of the store called.
C10_CheckedBeforeEvaluated ==
    ev.phase = "done" /\ ev.tree # <<>>
    => /\ ev.todo = <<>> => Visited = NodesOf(ev.tree[1])
       /\ (\E n \in NodesOf(ev.tree[1]) : Blocked(n))
          => /\ ~ev.out.ok
             /\ ev.out.err.type = "ValueError"
             /\ ev.out.calls = <<>>
             /\ ev.todo # <<>>

C10_Witness ==
    /\ ev.phase = "done"
    /\ src[1] = "max(len(e.get()), e.__sizeof__())"
    /\ "e" \in DOMAIN vars_
    /\ ev.out.err.msg = "Solar expr blocked: dunder attribute"
    /\ Len(ev.seen) >= 4
    /\ ev.out.calls = <<>>

(***************************************************************************)
(* Properties of the engine.py pipeline (SpecEngine).                      *)
(***************************************************************************)
IsLine(n, ops) == trace[n].ln > 0 /\ run_lines[trace[n].ln].op \in ops

\* the registrations of f that ran before the n-th traced line
RegsBefore(f, n) == {m \in 1..(n - 1) : IsLine(m, {"reg"}) /\ run_lines[trace[m].ln].names[2] = f}

LatestReg(f, n) == CHOOSE m \in RegsBefore(f, n) : \A h \in RegsBefore(f, n) : h <= m

\* the first line of the body that the latest registration of f put in
\* the registry
BodyOf(f, n) == DefOf(trace[LatestReg(f, n)].ln) + 1

BuiltIn == {"print", "print_many"}

UnknownFunction(f) ==
    Exc("NameError", "Oh noes! Solar threw an error: Unknown function: " \o f, 0)

\* the call statement whose check is the n-th traced line fails as the
\* call of an unknown function does
FailsUnknown(n) ==
    /\ ~trace[n].t
    /\ IF trace[n].cb
       THEN \E j \in 1..Len(pyenv.reported) :
               pyenv.reported[j] = UnknownFunction(run_lines[trace[n].ln].names[1])
       ELSE /\ n = Len(trace)
            /\ phase = "ended"
            /\ err = UnknownFunction(run_lines[trace[n].ln].names[1])

\* the call made by the n-th traced line was one frame too many for the host
HitsDepthLimit(n) ==
    IF trace[n].cb
    THEN \E j \in 1..Len(pyenv.reported) : pyenv.reported[j].type = "RecursionError"
    ELSE n = Len(trace) /\ phase = "ended" /\ err.type = "RecursionError"

\* the call made by the n-th traced line, of f with k arguments, runs the
\* body of f, unless the host's limit of frames is reached
RunsBody(n, f, k) ==
    Len(run_lines[BodyOf(f, n) - 1].args) = k
    => \/ IF n < Len(trace) THEN trace[n + 1].ln = BodyOf(f, n)
          ELSE phase = "run" /\ pc = BodyOf(f, n)
       \/ HitsDepthLimit(n)

UiLine(p) ==
    LET ln == run_lines[CHOOSE j \in 1..Len(run_lines) : run_lines[j].of = p] IN
    [op |-> ln.op, names |-> ln.names, args |-> ln.args]

\* C7: the line lowered from a ui statement determines the statement's
\* tokens and their quoted flags: two ui statements lowered to the same
\* line have the same sub-command, tokens and flags.
C7_UiTokensAndFlagsRecoverable ==
    \A p, q \in 1..lowered :
        program[p].k = "UiStmt" /\ program[q].k = "UiStmt" /\ UiLine(p) = UiLine(q)
        => program[p].names = program[q].names /\ program[p].flags = program[q].flags

(***************************************************************************)
(* Properties of both front ends (Spec).                                   *)
(***************************************************************************)
IsMalformedLet(line) == Strip(line) \in MalformedLets

\* the parser stopped with an exception at line j
ParseErrorAt(j) ==
    /\ phase = "ended"
    /\ err # NoErr
    /\ lowered = 0
    /\ run_lines = <<>>
    /\ IF mode = "interp" THEN i = j - 1 ELSE i = j

KeptAsPassthrough(j) ==
    \E p \in 1..Len(program) :
        /\ origin[p] = j
        /\ program[p] = PyRaw(src[j])
        /\ \A q \in 1..Len(program) : origin[q] = j => q = p

C11_EvaluationLeavesStore == [][mode = "eval" => vars_' = vars_]_vars

(***************************************************************************)
(* Properties of both front ends, continued (Spec).                        *)
(***************************************************************************)
\* the names a generated line reads with vars_.get that the store does not bind
UnboundRefs(ln, store) ==
    {PyStrLit(Inside(ln.args[j], "vars_.get(")).s :
        j \in {k \in 1..Len(ln.args) : StartsWith(ln.args[k], "vars_.get(")}} \ DOMAIN store

\* this step executes the generated line at pc
RunsLine ==
    /\ phase = "run"
    /\ pc \in 1..Len(run_lines)
    /\ Len(trace') = Len(trace) + 1
    /\ trace'[Len(trace')].ln = pc

\* C12: when a statement executes that references a variable name the store
\* does not bind at that moment (as an output argument, a binding's right-hand
\* side, a call argument or a condition), the run stops with a runtime error
\* naming the variable: the step that runs the line ends the run with that
\* error, so no later statement executes.
C12_UnboundReferenceStops ==
    [][RunsLine /\ Line.op \in {"print", "assign", "if", "fn_call"} /\ UnboundRefs(Line, vars_) # {}
         => /\ phase' = "ended"
            /\ err'.type = "NameError"
            /\ \E n \in UnboundRefs(Line, vars_) : Contains(err'.msg, n)]_vars

(***************************************************************************)
(* Properties of the interpreter.py pipeline, continued (SpecInterp).      *)
(***************************************************************************)
Keywords == {"if", "let", "print", "call", "ui", "pg", "contain"}

Openers == {"def", "class", "import", "from"}

\* a token that is a number, an identifier or a quoted string
PlainToken(t) == t.q \/ IsIntText(t.t) \/ IsFloatText(t.t) \/ IsIdentifier(t.t)

\* a line whose first token is a plain name, no keyword and no passthrough
\* opener, and whose other tokens are numbers, identifiers or quoted strings
BareCallTokens(toks) ==
    /\ toks # <<>>
    /\ ~toks[1].q
    /\ IsIdentifier(toks[1].t)
    /\ toks[1].t \notin Keywords \cup Openers
    /\ \A j \in 2..Len(toks) : PlainToken(toks[j])

BareCallLine(line) == tokenize_line(Strip(line)).ok /\ BareCallTokens(tokenize_line(Strip(line)).toks)

\* the Call statement of the tokens: the first is the target, the others
\* are the arguments in order
CallOf(toks) ==
    St("Call", <<toks[1].t>>, [j \in 1..(Len(toks) - 1) |-> parse_expr(toks[j + 1].t, toks[j + 1].q)], <<>>)

\* C13: every line outside a passthrough block (here: a line that is not
\* indented, which no block holds) whose first token is a plain name, neither
\* keyword nor passthrough opener, and whose other tokens are numbers,
\* identifiers or quoted strings, gives a Call statement of parse_prog whose
\* target is the first token and whose arguments are the other tokens in order.
C13_BareLineIsCall ==
    mode = "interp" =>
        \A k \in 1..i :
            BareCallLine(src[k]) /\ ~IsSpace(Ch(src[k], 1))
                => \E p \in 1..Len(program) :
                      origin[p] = k /\ program[p] = CallOf(tokenize_line(Strip(src[k])).toks)

(***************************************************************************)
(* Properties of the tokenizers (SpecTok).                                 *)
(***************************************************************************)
\* the text is a run of plain characters, none of them q or a backslash, and
\* of pairs of a backslash and a character
RECURSIVE EscapedRun(_, _)
EscapedRun(body, q) ==
    IF body = "" THEN TRUE
    ELSE IF Ch(body, 1) = "\\" THEN Len(body) >= 2 /\ EscapedRun(SubSeq(body, 3, Len(body)), q)
    ELSE Ch(body, 1) # q /\ EscapedRun(SubSeq(body, 2, Len(body)), q)

\* the text with every pair of a backslash and a character replaced by the
\* character
RECURSIVE Unescaped(_)
Unescaped(body) ==
    IF body = "" THEN ""
    ELSE IF Ch(body, 1) = "\\" /\ Len(body) >= 2 THEN Ch(body, 2) \o Unescaped(SubSeq(body, 3, Len(body)))
    ELSE Ch(body, 1) \o Unescaped(SubSeq(body, 2, Len(body)))

\* the positions of the quote that closes the string opened at p: the same
\* character as at p, not consumed by an escape
Closing(line, p) ==
    {c \in (p + 1)..Len(line) :
        Ch(line, c) = Ch(line, p) /\ EscapedRun(SubSeq(line, p + 1, c - 1), Ch(line, p))}

\* the turn of either tokenizer starts at a quote
AtQuote == phase = "scan" /\ TokStart <= Len(src[1]) /\ Ch(src[1], TokStart) \in Quotes

\* C14: a token that starts with a quote ends at the first later occurrence
\* of the same quote that no backslash escape consumes; its text is the
\* enclosed characters with every backslash-plus-character pair replaced by
\* the character, and it is flagged as quoted.  If the line ends before such
\* a quote, tokenizing fails with the unclosed-string error and yields no
\* token list.  In both tokenizers.
C14_QuotedToken ==
    [][AtQuote /\ mode \in {"tokenize_line", "_tokenize_with_quotes"}
         => IF Closing(src[1], TokStart) # {}
            THEN /\ Cardinality(Closing(src[1], TokStart)) = 1
                 /\ \E c \in Closing(src[1], TokStart) :
                       /\ output' = Append(output, Tok(Unescaped(SubSeq(src[1], TokStart + 1, c - 1)), TRUE))
                       /\ i' = c
                 /\ phase' = "scan"
                 /\ err' = NoErr
            ELSE /\ output' = <<>>
                 /\ err' = Exc("SyntaxError", "unclosed string literal", 0)
                 /\ phase' = "ended"]_vars

C14_Witness ==
    /\ mode = "_tokenize_with_quotes"
    /\ src[1] = "\"a\\\"b\" c"
    /\ phase = "ended"
    /\ err = NoErr
    /\ output = <<Tok("a\"b", TRUE), Tok("c", FALSE)>>

\* where the group opened at depth 0 by the "(" at j ends: end is the
\* position of the ")" that brings the depth back to zero, strings skipped
\* from their opening to their closing quote; end = 0 when the line ends
\* first, with why telling whether inside a string
RECURSIVE GroupSpan(_, _, _)
GroupSpan(line, j, depth) ==
    IF j > Len(line) THEN [end |-> 0, why |-> "unclosed parentheses group"]
    ELSE IF Ch(line, j) \in Quotes
    THEN IF Closing(line, j) = {} THEN [end |-> 0, why |-> "unclosed string literal"]
         ELSE GroupSpan(line, (CHOOSE c \in Closing(line, j) : TRUE) + 1, depth)
    ELSE IF Ch(line, j) = "(" THEN GroupSpan(line, j + 1, depth + 1)
    ELSE IF Ch(line, j) = ")" /\ depth = 1 THEN [end |-> j, why |-> ""]
    ELSE IF Ch(line, j) = ")" THEN GroupSpan(line, j + 1, depth - 1)
    ELSE GroupSpan(line, j + 1, depth)

\* the turn of tokenize_line starts at "("
AtGroup ==
    /\ mode = "tokenize_line"
    /\ phase = "scan"
    /\ TokStart <= Len(src[1])
    /\ Ch(src[1], TokStart) = "("

\* the turn appended exactly one unquoted token that spans the group: from
\* "(" to the closing ")", and character for character the source span
\* (whitespace included) when no backslash escape is in it
OneGroupToken(end) ==
    /\ Len(output') = Len(output) + 1
    /\ SubSeq(output', 1, Len(output)) = output
    /\ ~output'[Len(output')].q
    /\ Ch(output'[Len(output')].t, 1) = "("
    /\ EndsWith(output'[Len(output')].t, ")")
    /\ ~Contains(SubSeq(src[1], TokStart, end), "\\")
          => output'[Len(output')].t = SubSeq(src[1], TokStart, end)
    /\ i' = end
    /\ phase' = "scan"
    /\ err' = NoErr

\* the turn raised the SyntaxError with this message and returned no list
TokFails(why) == output' = <<>> /\ err' = Exc("SyntaxError", why, 0) /\ phase' = "ended"

\* C15, as stated: a token that starts with "(" extends to the ")" that
\* brings the nesting depth back to zero, parentheses inside embedded quoted
\* strings not counted, and is one unquoted token with its whitespace kept;
\* if the line ends while the depth is above zero, tokenizing fails with the
\* unclosed-group error.
C15_GroupOrUnclosedGroupError ==
    [][AtGroup => IF GroupSpan(src[1], TokStart, 0).end # 0
                  THEN OneGroupToken(GroupSpan(src[1], TokStart, 0).end)
                  ELSE TokFails("unclosed parentheses group")]_vars

\* C15, amended: as above, but when the line ends inside an embedded quoted
\* string the failure is the unclosed-string error; the unclosed-group error
\* is raised when the line ends outside any string with the depth above zero.
C15_GroupOrUnclosedError ==
    [][AtGroup => IF GroupSpan(src[1], TokStart, 0).end # 0
                  THEN OneGroupToken(GroupSpan(src[1], TokStart, 0).end)
                  ELSE TokFails(GroupSpan(src[1], TokStart, 0).why)]_vars

C15_Witness ==
    /\ mode = "tokenize_line"
    /\ src[1] = "(a \")\" b) c"
    /\ phase = "ended"
    /\ err = NoErr
    /\ output = <<Tok("(a \")\" b)", FALSE), Tok("c", FALSE)>>

(***************************************************************************)
(* Properties of the expression parsers (SpecExpr).                        *)
(***************************************************************************)
\* the kind the priority gives a token: quoted, then number, then
\* identifier, then raw expression
KindByPriority(t, q) ==
    IF q THEN "String"
    ELSE IF IsIntText(t) \/ (Contains(t, ".") /\ IsFloatText(t)) THEN "Num"
    ELSE IF IsIdentifier(t) THEN "Var"
    ELSE "RawExpr"

\* C16: each parser (parse_expr and _parse_expr) maps every token to one
\* expression kind by priority: quoted gives a string literal; otherwise an
\* integer text, or a floating-point text that contains ".", gives a number
\* literal; otherwise a valid identifier gives a variable reference;
\* otherwise the token gives a raw expression that carries its source text.
C16_KindByPriority ==
    mode \in {"parse_expr", "_parse_expr"} /\ phase = "ended"
        => /\ Len(output) = 1
           /\ output[1].k = KindByPriority(stack[1].t, stack[1].q)
           /\ output[1].k # "Num" => output[1].s = stack[1].t

(***************************************************************************)
(* Properties of the two line parsers (SpecLine).                          *)
(***************************************************************************)
\* the tokens of the line under parse
LineToks == tokenize_line(Strip(src[1])).toks

\* the position of the first unquoted-or-quoted token whose text is w (0: none)
TokenAt(toks, w) ==
    IF \E j \in 1..Len(toks) : toks[j].t = w
    THEN CHOOSE j \in 1..Len(toks) : toks[j].t = w /\ \A h \in 1..(j - 1) : toks[h].t # w
    ELSE 0

\* a binding line let <name> = <span>, and its span: all tokens after "="
IsBinding(toks) == Len(toks) >= 4 /\ toks[1].t = "let" /\ toks[3].t = "="

BindingSpan(toks) == SubSeq(toks, 4, Len(toks))

\* a conditional line if <span> then <statement>, and its span: all tokens
\* between "if" and "then"
IsConditional(toks) ==
    /\ toks # <<>>
    /\ toks[1].t = "if"
    /\ TokenAt(toks, "then") >= 3
    /\ TokenAt(toks, "then") < Len(toks)

ConditionSpan(toks) == SubSeq(toks, 2, TokenAt(toks, "then") - 1)

\* the spans the rule speaks of: several tokens, one quoted token, one bare
\* identifier
SpanCase(span) == Len(span) > 1 \/ span[1].q \/ IsIdentifier(span[1].t)

\* what the rule makes of a span
SpanExpr(span) ==
    IF Len(span) > 1 THEN Ex("RawExpr", JoinFrom(Texts(span), 1), NoneV)
    ELSE IF span[1].q THEN Ex("String", span[1].t, NoneV)
    ELSE Ex("Var", span[1].t, NoneV)

\* the statement returned is of class k and its expression is e
Returned(k, e) == Len(program) = 1 /\ program[1].k = k /\ program[1].exprs = <<e>>

\* C17: in both parsers, the expression span of a binding (all tokens after
\* "=") and the condition span of a conditional (all tokens between "if" and
\* "then") become: for several tokens, one raw expression of all the tokens
\* joined by single spaces, none dropped; for one quoted token, a string
\* literal; for one bare identifier, a variable reference.
C17_SpanBecomesOneExpression ==
    mode \in {"line", "_parse_line"} /\ phase = "ended"
        => /\ IsBinding(LineToks) /\ SpanCase(BindingSpan(LineToks))
                => Returned("Let", SpanExpr(BindingSpan(LineToks)))
           /\ IsConditional(LineToks) /\ SpanCase(ConditionSpan(LineToks))
                => Returned("IfThen", SpanExpr(ConditionSpan(LineToks)))

\* the tokens of the line under parse, as the parser at work cuts them
ModeToks ==
    IF mode = "line" THEN tokenize_line(Strip(src[1])).toks ELSE tokenize_with_quotes(Strip(src[1])).toks

\* the line is print followed by n argument tokens
IsPrintLine(n) == Len(ModeToks) = n + 1 /\ ModeToks[1] = Tok("print", FALSE)

\* argument token j parsed on its own by the parser at work, and its text
\* in the generated line
ArgExpr(j) ==
    IF mode = "line" THEN parse_expr(ModeToks[j + 1].t, ModeToks[j + 1].q)
    ELSE engine_parse_expr(ModeToks[j + 1].t, ModeToks[j + 1].q)

ArgText(j) == IF mode = "line" THEN expr_to_py(ArgExpr(j)) ELSE emit_expr(ArgExpr(j))

\* the generated lines of the statement returned that write output: the
\* print line, and the call of a function of the registry
OutputLines ==
    SelectSeq(IF mode = "line" THEN lower_stmt(program[1], 1) ELSE emit_stmt(program[1], 1),
              LAMBDA ln : ln.op \in {"print", "fn_call"})

\* the statement returned is an output statement: Print, or the call of
\* the multi-value output function print_many
IsOutput(st) == st.k = "Print" \/ (st.k = "Call" /\ st.names = <<"print_many">>)

\* C18: in both parsers a print line with n >= 1 argument tokens gives one
\* output instruction that receives exactly n values, one per token, each
\* parsed on its own and in source order; a print line with no argument
\* token does not parse: a SyntaxError and no statement.
C18_PrintTakesEachToken ==
    mode \in {"line", "_parse_line"} /\ phase = "ended"
        => /\ IsPrintLine(0) => program = <<>> /\ err.type = "SyntaxError"
           /\ \A n \in 1..Len(src[1]) :
                 IsPrintLine(n)
                    => /\ err = NoErr
                       /\ Len(program) = 1
                       /\ IsOutput(program[1])
                       /\ program[1].exprs = [j \in 1..n |-> ArgExpr(j)]
                       /\ Len(OutputLines) = 1
                       /\ OutputLines[1].args = [j \in 1..n |-> ArgText(j)]

C18_Witness ==
    /\ mode = "line"
    /\ phase = "ended"
    /\ src[1] = "print x \"a\" 5"
    /\ IsPrintLine(3)
    /\ program[1].k = "Call"
    /\ OutputLines[1].args = <<"vars_.get('x')", "'a'", "5">>

(***************************************************************************)
(* Properties of the engine.py pipeline, continued (SpecEngine).           *)
(***************************************************************************)
\* a line that parse_program reads: neither blank nor a comment
IsCode(k) == Strip(src[k]) # "" /\ ~StartsWith(Strip(src[k]), "#")

\* the first line after the header h that is equal to end (0: none)
EndOf(h) ==
    IF \E e \in (h + 1)..Len(src) : Strip(src[e]) = "end"
    THEN CHOOSE e \in (h + 1)..Len(src) :
            Strip(src[e]) = "end" /\ \A k \in (h + 1)..(e - 1) : Strip(src[k]) # "end"
    ELSE 0

\* the code lines strictly between the lines h and e, in document order
CodeBetween(h, e) == SelectSeq([k \in 1..(e - h - 1) |-> h + k], IsCode)

\* the statements parsed from those lines, in document order
StmtsBetween(h, e) ==
    [j \in 1..Len(CodeBetween(h, e)) |->
        engine_parse_line(Strip(src[CodeBetween(h, e)[j]]), CodeBetween(h, e)[j]).st]

\* the generated lines of statement p
LinesOf(p) == SelectSeq(run_lines, LAMBDA ln : ln.of = p)

\* statement p is a function definition whose header has a terminator
IsClosedDef(p) == program[p].k = "SolarDef" /\ EndOf(origin[p]) # 0

DefBodyAsWritten(p) ==
    /\ program[p].sub = StmtsBetween(origin[p], EndOf(origin[p]))
    /\ p < Len(program)
          => /\ origin[p + 1] > EndOf(origin[p])
             /\ IsCode(origin[p + 1])
             /\ \A k \in (EndOf(origin[p]) + 1)..(origin[p + 1] - 1) : ~IsCode(k)
    /\ p = Len(program) /\ phase # "parse" /\ err = NoErr
          => \A k \in (EndOf(origin[p]) + 1)..Len(src) : ~IsCode(k)
    /\ program[p].sub = <<>> /\ lowered >= p
          => /\ Len(LinesOf(p)) = 3
             /\ LinesOf(p)[1].op = "def"
             /\ LinesOf(p)[2].op = "pass"
             /\ LinesOf(p)[3].op = "reg"

\* this step runs the pass line that is the whole body of a definition
\* without statements, under a call of the function
RunsEmptyBody ==
    /\ mode = "engine"
    /\ RunsLine
    /\ Line.op = "pass"
    /\ stack # <<>>

\* C19: for a solar_def header with a terminator line end, the body of the
\* definition is exactly the statements parsed from the non-blank,
\* non-comment lines strictly between the header and the first line equal
\* to end, in document order; the lines after that end are parsed as
\* top-level statements; a definition with no body line is accepted and
\* lowers to a function that can be called and does nothing: its body is one
\* pass line, and running it under a call leaves the store, the output, the
\* registry and the error as they were.
C19_DefinitionBodyUpToEnd ==
    /\ [](mode = "engine" => \A p \in 1..Len(program) : IsClosedDef(p) => DefBodyAsWritten(p))
    /\ [][RunsEmptyBody => /\ vars_' = vars_
                           /\ output' = output
                           /\ funcs' = funcs
                           /\ err' = err
                           /\ phase' = "run"]_vars

\* the built-in print_many defined again with no body line between two
\* comment-or-blank lines, then called: the call ran the pass line and the
\* run ended with nothing written
C19_Witness ==
    /\ mode = "engine"
    /\ src = <<"solar_def print_many():", "# built-in, defined again", "", "end", "print_many">>
    /\ Len(program) = 2
    /\ err = NoErr
    /\ program[1].k = "SolarDef"
    /\ program[1].sub = <<>>
    /\ \E t \in 1..Len(trace) : trace[t].ln # 0 /\ run_lines[trace[t].ln].op = "pass"
    /\ output = <<>>
    /\ phase = "ended"

(***************************************************************************)
(* Properties of both front ends: the order of the lowered run body (Spec). *)
(***************************************************************************)
\* statement p is a passthrough line that has been lowered
IsLoweredRaw(p) == p <= lowered /\ program[p].k = "PyRaw"

\* C20: the lowered run body keeps document order.  The statements follow
\* the order of their source lines; the generated lines of an earlier
\* statement all come before those of a later one; each passthrough line is
\* emitted exactly once, as one line that carries the text of its source
\* line unchanged behind the indentation prefix, in the place its statement
\* has among the others; and no other line is a passthrough line.
C20_LoweringKeepsOrder ==
    /\ \A p, q \in 1..Len(program) : p < q => origin[p] < origin[q]
    /\ \A a, b \in 1..Len(run_lines) : a < b => run_lines[a].of <= run_lines[b].of
    /\ \A a \in 1..Len(run_lines) : run_lines[a].of \in 1..lowered
    /\ \A p \in 1..Len(program) :
          IsLoweredRaw(p)
             => /\ Len(LinesOf(p)) = 1
                /\ LinesOf(p)[1].op = "raw"
                /\ LinesOf(p)[1].names = <<src[origin[p]]>>
                /\ LinesOf(p)[1].ind >= 1
    /\ \A a \in 1..Len(run_lines) : run_lines[a].op = "raw" => program[run_lines[a].of].k = "PyRaw"

\* a passthrough block of two lines, the second indented: each is one line,
\* in order, with its text as written, and the module ran to its end
C20_Witness ==
    /\ mode = "interp"
    /\ src = <<"def h():", "    return 1">>
    /\ lowered = 2
    /\ Len(run_lines) = 2
    /\ run_lines[1].names = <<"def h():">>
    /\ run_lines[2].names = <<"    return 1">>
    /\ run_lines[2].of = 2
    /\ phase = "ended"
    /\ err = NoErr

(***************************************************************************)
(* Properties of the engine.py pipeline: one store, one registry           *)
(* (SpecEngine).                                                           *)
(***************************************************************************)
\* what the generated line ln leaves in the store when it completes
StoreStep(store, ln, done) ==
    IF ln.op = "assign"
    THEN Put(store, PyStrLit(ln.names[1]).s, py_eval_text(ln.args[1], store).v)
    ELSE IF ln.op = "ui" /\ done
    THEN ui_store(PyStrLit(ln.names[1]).s, UiArgs(ln), store)
    ELSE store

\* the store after the first n traced lines: every binding that ran, in
\* the order in which it ran, whatever the call it ran in
RECURSIVE StoreAfter(_)
StoreAfter(n) ==
    IF n = 0 THEN <<>>
    ELSE IF trace[n].ln = 0 THEN StoreAfter(n - 1)
    ELSE StoreStep(StoreAfter(n - 1), run_lines[trace[n].ln], trace[n].t)

\* what the generated line at j leaves in the registry
RegistryStep(registry, j) ==
    IF run_lines[j].op = "reg"
    THEN Put(registry, PyStrLit(run_lines[j].names[1]).s, UserFn(DefOf(j), run_lines[j].names[2]))
    ELSE registry

\* the registry after the first n traced lines: every registration that ran
RECURSIVE RegistryAfter(_)
RegistryAfter(n) ==
    IF n = 0 THEN engine_funcs
    ELSE IF trace[n].ln = 0 THEN RegistryAfter(n - 1)
    ELSE RegistryStep(RegistryAfter(n - 1), trace[n].ln)

\* a line of a function body is about to run
InBody(ops) == EngineRunning(ops) /\ stack # <<>>

\* C21: within one run of the engine there is one variable store and one
\* function registry.  The store is what every binding executed so far
\* leaves, in execution order, whether it ran at the top level, in a
\* function body, in a nested or recursive call or under a button callback,
\* and the registry is the built-ins with every registration executed so
\* far; entering or leaving a call changes neither.  A line of a function
\* body reads the store and the registry as they are when it runs: a print
\* shows the bindings made before the call, and a call in a body finds the
\* functions defined before the call, also those defined after the body's
\* own definition.
C21_OneStoreOneRegistry ==
    /\ [](mode = "engine" /\ pc >= 1
          => vars_ = StoreAfter(Len(trace)) /\ funcs = RegistryAfter(Len(trace)))
    /\ [][/\ InBody({"print"})
             => output' = Append(output, py_eval_texts(Line.args, StoreAfter(Len(trace)), <<>>).vs)
          /\ InBody({"fn_get"})
             => pyenv'.fn = Get(RegistryAfter(Len(trace)), PyStrLit(Line.names[1]).s)
          /\ mode = "engine" /\ phase = "run" /\ (AtBodyEnd \/ Len(stack') > Len(stack))
             => vars_' = vars_ /\ funcs' = funcs]_vars

\* g is defined before f, which it calls; g is called after both are
\* defined: the body of g finds f, the binding f makes is in the store
\* after the run, and the parameter of g is read from the store
C21_Witness ==
    /\ mode = "engine"
    /\ src = <<"solar_def g(a):", "  f", "  print a \"g\"", "end",
               "solar_def f:", "let x = 1", "end", "g 7">>
    /\ phase = "ended"
    /\ err = NoErr
    /\ vars_ = [n \in {"x"} |-> IntV(1)]
    /\ output = <<<<NoneV, StrV("g")>>>>

(***************************************************************************)
(* Properties of the command line (SpecCli).                               *)
(***************************************************************************)
\* main has ended, by returning, by an exit of argparse or by an exception
MainEnded == cli.code # -1

\* the arguments name no command, or give a command another number of
\* operands than it takes, and do not ask for the help
InvalidArgs(argv) ==
    /\ argv # <<>>
    /\ ~In(argv, "-h")
    /\ \/ argv[1] \notin Commands
       \/ argv[1] \in {"run", "compile"} /\ Len(argv) # 2
       \/ argv[1] \in {"help", "version", "update"} /\ Len(argv) # 1

\* the arguments are a run or a compile of a path that cannot be read
\* (-h is the option that asks for the help, not a path)
NamesUnreadable(argv) ==
    Len(argv) = 2 /\ argv[1] \in {"run", "compile"} /\ argv[2] \notin DOMAIN Files \cup {"-h"}

\* C22: main ends with status 0 for help, version and no command, and for
\* a run or a compile that raises nothing; it ends with a status other than
\* 0 when the arguments are invalid or the named file cannot be read; a
\* compile that succeeds prints the lowered program of the file, and a
\* compile executes no line of it, whatever the file.
C22_ExitStatus ==
    /\ MainEnded /\ cli.argv \in {<<>>, <<"help">>, <<"version">>} => cli.code = 0
    /\ MainEnded /\ cli.cmd \in {"run", "compile"} /\ err = NoErr => cli.code = 0
    /\ MainEnded /\ (InvalidArgs(cli.argv) \/ NamesUnreadable(cli.argv)) => cli.code # 0
    /\ MainEnded /\ cli.cmd = "compile" /\ err = NoErr
       => cli.printed = <<Printed("program", compile_to_python(Files[cli.file]).lines)>>
    /\ cli.cmd = "compile"
       => mode = "cli" /\ trace = <<>> /\ output = <<>> /\ vars_ = <<>> /\ funcs = <<>> /\ pc = 0

\* the compile of a file whose run would print and open a window: status
\* 0, the program printed, nothing executed
C22_Witness ==
    /\ cli.argv = <<"compile", "a.solar">>
    /\ cli.code = 0
    /\ Len(cli.printed) = 1
    /\ cli.printed[1].what = "program"
    /\ Len(cli.printed[1].lines) > 0
    /\ output = <<>>
    /\ trace = <<>>

(***************************************************************************)
(* Properties of parse_prog's passthrough-block flag (SpecProg).           *)
(***************************************************************************)
\* parse_prog is about to read the line after the i-th
Reading == mode = "parse_prog" /\ phase = "parse" /\ i < Len(src)

IsBlank(line) == Strip(line) = ""

IsComment(line) == ~IsBlank(line) /\ Ch(LStrip(line), 1) = "#"

IsIndented(line) == Len(line) > 0 /\ Ch(line, 1) \in {" ", "\t"}

\* the line continues a passthrough block
Continues(line) == IsBlank(line) \/ IsComment(line) \/ IsIndented(line)

\* the line is classified as the opener of a passthrough block
ClassifiedOpener(line) ==
    /\ ~IsBlank(line)
    /\ ~IsComment(line)
    /\ ~StartsWith(Strip(line), "contain ")
    /\ \/ \E h \in {"def ", "class ", "@"} : StartsWith(LStrip(line), h)
       \/ Ch(RStrip(line), Len(RStrip(line))) = ":"

\* the pass appends what the pass over the same line outside a block does
AsOutsideBlock ==
    /\ program' = program \o parse_prog_pass(src[i + 1], i + 1, FALSE).stmts
    /\ in_py_block' = parse_prog_pass(src[i + 1], i + 1, FALSE).flag
    /\ err' = parse_prog_pass(src[i + 1], i + 1, FALSE).err

\* C23: the passthrough-block flag of parse_prog is a two-state machine.
\* While it is set, a blank line, a comment line and a line that starts with
\* a space or a tab is appended verbatim as passthrough and the flag stays
\* set; another line is classified as it is outside a block, which clears
\* the flag unless the line opens a block.  While it is clear, a blank or a
\* comment line adds no statement.  The flag is set after a pass exactly
\* when the line opened a block or continued one.
C23_BlockFlagMachine ==
    [][Reading
       => /\ in_py_block /\ Continues(src[i + 1])
             => program' = Append(program, PyRaw(src[i + 1])) /\ in_py_block'
          /\ in_py_block /\ ~Continues(src[i + 1])
             => \/ AsOutsideBlock
                \/ /\ parse_prog_pass(src[i + 1], i + 1, FALSE).err # NoErr
                   /\ err' = parse_prog_pass(src[i + 1], i + 1, FALSE).err
                   /\ program' = program
          /\ ~in_py_block /\ (IsBlank(src[i + 1]) \/ IsComment(src[i + 1]))
             => program' = program /\ ~in_py_block'
          /\ err' = NoErr
             => (in_py_block' <=> \/ in_py_block /\ Continues(src[i + 1])
                                  \/ ~(in_py_block /\ Continues(src[i + 1]))
                                     /\ ClassifiedOpener(src[i + 1]))]_vars

\* a block with a blank line and an indented line, closed by a line of
\* Solar, which is parsed as Solar
C23_Witness ==
    /\ mode = "parse_prog"
    /\ src = <<"def h():", "", "    return 1", "print 1">>
    /\ i = 4
    /\ ~in_py_block
    /\ Len(program) = 4
    /\ program[2] = PyRaw("")
    /\ program[3] = PyRaw("    return 1")
    /\ program[4].k = "Print"

(***************************************************************************)
(* pg loop ... pg end at run time                                          *)
(***************************************************************************)

\* the statement of the program that the line j of __run was lowered from
StmtAt(j) == IF j > Len(run_lines) THEN Len(program) + 1 ELSE run_lines[j].of

\* the pg end that closes a pg loop: k is where the search is, d counts the
\* loops opened since
RECURSIVE PgEndFrom(_, _)
PgEndFrom(k, d) ==
    IF k > Len(program) THEN k
    ELSE IF program[k].k = "PgEnd" THEN (IF d = 0 THEN k ELSE PgEndFrom(k + 1, d - 1))
    ELSE IF program[k].k = "PgLoop" THEN PgEndFrom(k + 1, d + 1)
    ELSE PgEndFrom(k + 1, d)

PgEndOf(s) == PgEndFrom(s + 1, 0)

\* the innermost pg loop statement that is open at statement s, 0 when
\* there is none; o is where the search is
RECURSIVE PgLoopAround(_, _)
PgLoopAround(s, o) ==
    IF o = 0 THEN 0
    ELSE IF program[o].k = "PgLoop" /\ PgEndOf(o) >= s THEN o
    ELSE PgLoopAround(s, o - 1)

\* the statement that executes when control reaches statement k: a pg end
\* hands control to the header of its loop
RECURSIVE StmtReached(_)
StmtReached(k) ==
    IF k > Len(program) \/ program[k].k # "PgEnd" THEN k
    ELSE IF PgLoopAround(k, k - 1) # 0 THEN PgLoopAround(k, k - 1)
    ELSE StmtReached(k + 1)

WindowCreated(w) ==
    \E n \in 1..Len(trace) : /\ run_lines[trace[n].ln].op = "PgWindow"
                             /\ run_lines[trace[n].ln].names[1] = w

FlagOf(env, w) == w \in DOMAIN env.pg /\ env.pg[w].running

\* C24: at the header of `pg loop w` the body is entered exactly when the
\* running flag of w is true, and never when no window w was created; with a
\* false flag the statement after the matching `pg end` executes next. A
\* statement of the body that completes hands control to the next statement
\* of the body or, at the end of the pass, back to the header, so that the
\* flag is checked again before every pass and the loop is left only at the
\* header; `pg stop w`, and `pg quitif w` after a poll that saw a quit
\* event, leave the flag false.
C24_LoopRunsWhileFlag ==
    [][ phase = "run" /\ mode = "interp" /\ pc <= Len(run_lines) /\ phase' = "run"
        => /\ Line.op = "PgLoop"
                => /\ ~WindowCreated(Line.names[1]) => ~FlagOf(pyenv, Line.names[1])
                   /\ IF FlagOf(pyenv, Line.names[1])
                      THEN StmtAt(pc') = StmtAt(pc) + 1 /\ StmtAt(pc') < PgEndOf(StmtAt(pc))
                      ELSE StmtAt(pc') = StmtReached(PgEndOf(StmtAt(pc)) + 1)
           /\ Line.op # "PgLoop" /\ PgLoopAround(StmtAt(pc), StmtAt(pc) - 1) # 0
                => StmtAt(pc') \in {StmtAt(pc), StmtReached(StmtAt(pc) + 1)}
           /\ Line.op = "PgStop" => ~FlagOf(pyenv', Line.names[1])
           /\ Line.op = "PgQuitIf" /\ pyenv.pg[Line.names[1]].quit => ~FlagOf(pyenv', Line.names[1])
      ]_vars

\* a pass ran, `pg stop` set the flag in it, the rest of the pass ran, the
\* header found the flag false and the statement after the loop ran
C24_Witness ==
    /\ mode = "interp" /\ phase = "ended" /\ err.type = ""
    /\ \E a, b, c \in 1..Len(trace) :
          /\ a < c /\ c + 1 < b /\ b < Len(trace)
          /\ trace[a].ln = trace[b].ln
          /\ run_lines[trace[a].ln].op = "PgLoop"
          /\ trace[a].t /\ ~trace[b].t
          /\ run_lines[trace[c].ln].op = "PgStop"
          /\ \A n \in a + 1..b - 1 : StmtAt(trace[n].ln) > StmtAt(trace[a].ln)
                                     /\ StmtAt(trace[n].ln) < PgEndOf(StmtAt(trace[a].ln))

(***************************************************************************)
(* The indentation level of the lowering                                   *)
(***************************************************************************)

\* the pg loop statements among the first n of the program that no pg end
\* has closed
RECURSIVE OpenLoops(_)
OpenLoops(n) ==
    IF n = 0 THEN 0
    ELSE IF program[n].k = "PgLoop" THEN OpenLoops(n - 1) + 1
    ELSE IF program[n].k = "PgEnd" /\ OpenLoops(n - 1) > 0 THEN OpenLoops(n - 1) - 1
    ELSE OpenLoops(n - 1)

Lowering == mode = "interp" /\ phase = "lower"

\* C25: while the program is lowered, the level at the start of every pass is
\* 1 plus the number of `pg loop` statements that no `pg end` has closed, the
\* level and the indentation of every emitted line are at least 1, a pass for
\* a statement other than `pg loop` and `pg end` ends with the level it began
\* with, and a `pg end` with no open loop leaves the level, the loop stack
\* and the emitted lines as they were.
C25_LevelCountsOpenLoops ==
    /\ [](Lowering => /\ indent = 1 + OpenLoops(lowered)
                      /\ indent >= 1
                      /\ \A j \in 1..Len(run_lines) : run_lines[j].ind >= 1)
    /\ [][Lowering /\ lowered' = lowered + 1
          => /\ program[lowered'].k \notin {"PgLoop", "PgEnd"} => indent' = indent
             /\ program[lowered'].k = "PgEnd" /\ OpenLoops(lowered) = 0
                  => indent' = indent /\ pg_loop_stack' = pg_loop_stack /\ run_lines' = run_lines
       ]_vars

\* a `pg end` with no open loop was handled after a loop was opened and
\* closed, and a statement was lowered inside a loop
C25_Witness ==
    /\ Lowering /\ lowered = Len(program)
    /\ \E a, b, c, d \in 1..lowered :
          /\ a < b /\ b < c /\ c < d
          /\ program[a].k = "PgLoop" /\ OpenLoops(a) = 1
          /\ program[b].k \notin {"PgLoop", "PgEnd"} /\ OpenLoops(b) = 1
          /\ program[c].k = "PgEnd" /\ OpenLoops(c) = 0
          /\ program[d].k = "PgEnd" /\ OpenLoops(d - 1) = 0

(***************************************************************************)
(* Marker keywords (SpecMarker)                                            *)
(***************************************************************************)
\* the line was parsed by parse_solar_line into a statement of class k
LineParsedAs(k) == mode = "line" /\ phase = "ended" /\ Len(program) = 1 /\ program[1].k = k

\* the line under parse has the head and the sub-command
LineOf(head, cmd) ==
    /\ mode = "line" /\ phase = "ended"
    /\ Len(LineToks) >= 2 /\ LineToks[1].t = head /\ LineToks[2].t = cmd

\* the expression read from the token at position n
ReadAt(toks, n) == parse_expr(toks[n].t, toks[n].q)

ReadFrom(toks, n) == [j \in 1..(Len(toks) - n + 1) |-> ReadAt(toks, n + j - 1)]

\* then, at, do, from and to in parse_solar_line: the condition, the
\* coordinates, the range and the callback are read at the first token
\* with the marker's text
ReadAfterFirst(toks) ==
    /\ LineParsedAs("IfThen") =>
          program[1].exprs = <<parse_expr(JoinRange(Texts(toks), 2, TokenAt(toks, "then") - 1), FALSE)>>
    /\ LineParsedAs("UiLabel") \/ LineParsedAs("UiCheckbox") \/ LineParsedAs("UiButton") =>
          SubSeq(program[1].exprs, 2, 3) =
              <<ReadAt(toks, TokenAt(toks, "at") + 1), ReadAt(toks, TokenAt(toks, "at") + 2)>>
    /\ LineParsedAs("UiEntry") =>
          program[1].exprs = <<ReadAt(toks, TokenAt(toks, "at") + 1), ReadAt(toks, TokenAt(toks, "at") + 2)>>
    /\ LineParsedAs("UiSlider") =>
          program[1].exprs = <<ReadAt(toks, TokenAt(toks, "from") + 1), ReadAt(toks, TokenAt(toks, "to") + 1),
                               ReadAt(toks, TokenAt(toks, "at") + 1), ReadAt(toks, TokenAt(toks, "at") + 2)>>
    /\ LineParsedAs("UiButton") \/ LineParsedAs("UiBind") =>
          /\ program[1].sub[1].names = <<toks[TokenAt(toks, "do") + 1].t>>
          /\ program[1].sub[1].exprs = ReadFrom(toks, TokenAt(toks, "do") + 2)

\* the arguments the engine's ui helper is called with for the button line
ButtonArgs == SubSeq(tokenize_with_quotes(src[10]).toks, 3, Len(tokenize_with_quotes(src[10]).toks))

\* at and do in the engine's ui helper: the coordinates are converted and
\* the callback is read at the first argument with the marker's text
HelperReadsAfterFirst(args) ==
    /\ mode = "engine" /\ Len(pyenv.buttons) = 1 =>
          pyenv.buttons[1] =
              IF TokenAt(args, "do") # 0 /\ TokenAt(args, "do") < Len(args)
              THEN [fn |-> <<args[TokenAt(args, "do") + 1].t>>,
                    args |-> Texts(SubSeq(args, TokenAt(args, "do") + 2, Len(args)))]
              ELSE [fn |-> <<>>, args |-> <<>>]
    /\ mode = "engine" /\ phase = "ended" =>
          (err.type = "ValueError") =
              /\ TokenAt(args, "at") # 0
              /\ \E n \in 1..2 : ~IsFloatArg(args[TokenAt(args, "at") + n].t)

\* = and into read at the first token with the marker's text
ReadAfterFirstBinding(toks) ==
    /\ LineOf("let", toks[2].t) /\ TokenAt(toks, "=") \in 2..(Len(toks) - 1) =>
          /\ LineParsedAs("Let")
          /\ program[1].names = <<toks[TokenAt(toks, "=") - 1].t>>
    /\ LineOf("ui", "get") /\ TokenAt(toks, "into") \in 2..(Len(toks) - 1) =>
          /\ LineParsedAs("UiGetInto")
          /\ program[1].names = <<toks[TokenAt(toks, "into") - 1].t, toks[TokenAt(toks, "into") + 1].t>>
    /\ LineOf("pg", "key") /\ TokenAt(toks, "into") \in 2..(Len(toks) - 1) =>
          /\ LineParsedAs("PgKeyInto")
          /\ program[1].names = <<toks[3].t, toks[TokenAt(toks, "into") - 1].t, toks[TokenAt(toks, "into") + 1].t>>

\* = and into looked for at one position: the third token of a let, the
\* fourth of a ui get, the fifth of a pg key
ReadAtFixedPlace(toks) ==
    /\ LineOf("let", toks[2].t) =>
          /\ LineParsedAs("Let") = (Len(toks) >= 4 /\ toks[3].t = "=")
          /\ LineParsedAs("Let") => program[1].names = <<toks[2].t>>
    /\ LineOf("ui", "get") =>
          /\ LineParsedAs("UiGetInto") = (Len(toks) >= 5 /\ toks[4].t = "into")
          /\ LineParsedAs("UiGetInto") => program[1].names = <<toks[3].t, toks[5].t>>
    /\ LineOf("pg", "key") =>
          /\ LineParsedAs("PgKeyInto") = (Len(toks) >= 6 /\ toks[5].t = "into")
          /\ LineParsedAs("PgKeyInto") => program[1].names = <<toks[3].t, toks[4].t, toks[6].t>>

\* C26, as stated: the marker is the first token whose text is then, at, do,
\* from, to, into or =, quoted or not, in parse_solar_line, and the first
\* argument whose text is at or do in the engine's ui helper; what follows
\* the marker is read from there.
C26_FirstTokenWithTextIsMarker ==
    /\ ReadAfterFirst(LineToks)
    /\ ReadAfterFirstBinding(LineToks)
    /\ HelperReadsAfterFirst(ButtonArgs)

\* C26, amended: as above for then, at, do, from and to; = and into are
\* looked for at one fixed position of the line and compared by text alone,
\* so that an earlier token with the same text is an ordinary argument.
C26_MarkersByTextAlone ==
    /\ ReadAfterFirst(LineToks)
    /\ ReadAtFixedPlace(LineToks)
    /\ HelperReadsAfterFirst(ButtonArgs)

\* a quoted "do" in the place of the button's text is the marker: the
\* callback is read after it
C26_Witness ==
    /\ LineParsedAs("UiButton")
    /\ LineToks[5] = Tok("do", TRUE)
    /\ TokenAt(LineToks, "do") = 5
    /\ program[1].sub[1].names = <<"at">>

(***************************************************************************)
(* Parameters of a solar_def (SpecParam)                                   *)
(***************************************************************************)
\* a body runs, and the step is taken in it
InBodyOf(name) ==
    /\ mode = "engine" /\ phase = "run" /\ stack # <<>>
    /\ run_lines[DefOf(Head(stack).end)].names[1] = name

\* C27: in the engine a reference to a parameter's name in the body of a
\* solar_def reads the shared store: what `print a` writes and what
\* `let c = a` binds in a body with the parameter a is the store's a (None
\* when the store has none), whatever the caller passed; and the step that
\* enters a body with its arguments leaves the store as it was.
C27_ParameterReadsStore ==
    [][ /\ mode = "engine" /\ Len(stack') > Len(stack) => vars_' = vars_
        /\ InBodyOf("g") /\ Len(output') > Len(output)
              => output' = Append(output, <<Get(vars_, "a")>>) /\ vars_' = vars_
        /\ InBodyOf("s") /\ pc' = pc + 1
              => vars_' = Put(vars_, "c", Get(vars_, "a"))
      ]_vars

\* g was called with 7 before and after the store got a = 5, and s with 7:
\* the bodies read None, then 5, and never 7
C27_Witness ==
    /\ mode = "engine" /\ phase = "ended" /\ err = NoErr
    /\ SubSeq(src, 7, 9) = <<"g 7", "let a = 5", "g 7">>
    /\ SubSeq(output, 1, 2) = << <<NoneV>>, <<IntV(5)>> >>
    /\ pyenv.clicks = 1
    /\ Len(output) = 3 /\ output[3] = <<IntV(5)>>

(***************************************************************************)
(* The names of the evaluation environment (SpecEval)                      *)
(***************************************************************************)
\* eval ran on an expression that is the one name n
EvaluatedName(n) ==
    /\ mode = "eval" /\ ev.phase = "done" /\ ev.todo = <<>>
    /\ ev.tree # <<>> /\ ev.tree[1].kids[1].kind = "Name" /\ ev.tree[1].kids[1].id = n

\* eval ran on a call of the name n
EvaluatedCallOf(n) ==
    /\ mode = "eval" /\ ev.phase = "done" /\ ev.todo = <<>>
    /\ ev.tree # <<>> /\ ev.tree[1].kids[1].kind = "Call"
    /\ ev.tree[1].kids[1].kids[1].kind = "Name" /\ ev.tree[1].kids[1].kids[1].id = n

SafeNames ==
    {"math", "random", "min", "max", "abs", "round", "int", "float", "str", "len", "clamp", "randint"}

SpecTokFair == SpecTok /\ WF_vars(NextTok)

Tokenizing == mode \in {"tokenize_line", "_tokenize_with_quotes"}

\* a token that read_paren_group returned
IsGroupToken(tok) == mode = "tokenize_line" /\ ~tok.q /\ StartsWith(tok.t, "(")

\* a word: not empty, no whitespace in it
IsWord(t) == t # "" /\ \A k \in 1..Len(t) : ~IsSpace(Ch(t, k))

\* the turn appended one token read from the characters first..last
AppendedFrom(first, last) ==
    /\ Len(output') = Len(output) + 1
    /\ SubSeq(output', 1, Len(output)) = output
    /\ first <= last
    /\ LET tok == output'[Len(output')] IN
       IF tok.q THEN Ch(src[1], first) \in Quotes /\ Ch(src[1], last) = Ch(src[1], first) /\ first < last
       ELSE IF IsGroupToken(tok) THEN Ch(src[1], first) = "(" /\ Ch(src[1], last) = ")"
       ELSE tok.t = SubSeq(src[1], first, last)

\* C29: both tokenizers end on every line; a turn of the main loop either
\* consumes at least one character or ends the loop; a turn that goes on
\* appends one token, read from characters after all those read before, to
\* the tokens so far, and the list returned is the list so built; every
\* unquoted token that is not a parenthesis group is a non-empty text
\* without whitespace.
C29_TokenizersTerminate ==
    /\ <>(Tokenizing => phase = "ended")
    /\ [][Tokenizing /\ phase = "scan"
             => /\ i' > i \/ phase' = "ended"
                /\ phase' = "scan" => AppendedFrom(SkipSpace(src[1], i + 1), i')
                /\ phase' = "ended" /\ err' = NoErr => output' = output]_vars
    /\ [](Tokenizing => \A k \in 1..Len(output) :
                            ~output[k].q /\ ~IsGroupToken(output[k]) => IsWord(output[k].t))

\* a word, a group with two blanks inside and a word, read in three turns
C29_Witness ==
    /\ mode = "tokenize_line" /\ phase = "ended" /\ err = NoErr
    /\ src[1] = "x(a  b) y"
    /\ output = <<Tok("x", FALSE), Tok("(a  b)", FALSE), Tok("y", FALSE)>>
    /\ i = Len(src[1])

(***************************************************************************)
(* The text of a group token (SpecTok)                                     *)
(***************************************************************************)
\* the characters j..end of the line with every quoted string in them
\* written as its quote character, its characters with the escapes
\* resolved, and its quote character again
RECURSIVE Reemitted(_, _, _)
Reemitted(line, j, end) ==
    IF j > end THEN ""
    ELSE IF Ch(line, j) \in Quotes /\ Closing(line, j) # {}
    THEN LET c == CHOOSE c \in Closing(line, j) : TRUE IN
         Ch(line, j) \o Unescaped(SubSeq(line, j + 1, c - 1)) \o Ch(line, j) \o Reemitted(line, c + 1, end)
    ELSE Ch(line, j) \o Reemitted(line, j + 1, end)

\* C30: the text of a parenthesis-group token is its source span with every
\* embedded quoted string written between its own quote characters and with
\* its backslash escapes resolved; when the span holds no backslash the text
\* is the span, character for character.
C30_GroupTextReemitsStrings ==
    [][AtGroup /\ GroupSpan(src[1], TokStart, 0).end # 0
         => \E end \in {GroupSpan(src[1], TokStart, 0).end} :
               /\ Len(output') = Len(output) + 1
               /\ ~output'[Len(output')].q
               /\ output'[Len(output')].t = Reemitted(src[1], TokStart, end)
               /\ ~Contains(SubSeq(src[1], TokStart, end), "\\")
                     => output'[Len(output')].t = SubSeq(src[1], TokStart, end)]_vars

\* ("a\"b") ('c' d) gave ("a"b") and, with no backslash in its span,
\* ('c' d) itself
C30_Witness ==
    /\ mode = "tokenize_line" /\ phase = "ended" /\ err = NoErr
    /\ src[1] = "(\"a\\\"b\") ('c' d)"
    /\ output = <<Tok("(\"a\"b\")", FALSE), Tok("('c' d)", FALSE)>>
====
